---- MODULE Spec2Model ----
(***************************************************************************)
(* BlogSmith AI: the content generation pipeline.                          *)
(*                                                                         *)
(*   - generateBlogPostFlow       (generate-blog-post.ts)                  *)
(*   - generateSocialMediaPostFlow, single post and batch revisions        *)
(*   - optimizeForSeo as it is called by the form handlers                 *)
(*   - ContentGenerator: onBlogSubmit, onSocialMediaSubmit, handleCopy,    *)
(*     handleExport, renderBlogContent                                     *)
(*                                                                         *)
(* Text is a sequence of lexemes.  A lexeme is one character class or one  *)
(* literal run that the regular expressions and indexOf calls of the code  *)
(* match either whole or not at all: "x" is an ordinary character, "[" and *)
(* "]" are brackets, "IMAGE_PLACEHOLDER_" is that literal run, "0".."9"    *)
(* are digits, "**" is the bold marker, "\n" a newline, "<br>" a line      *)
(* break tag.  An optional value is a sequence of length 0 or 1.           *)
(***************************************************************************)
EXTENDS Integers, Sequences, FiniteSets, TLC

None == <<>>

Some(x) == <<x>>

IsSome(o) == o # <<>>

Get(o) == o[1]

(* JavaScript truthiness of an optional string: undefined and "" are falsy *)
Falsy(o) == o = None \/ Get(o) = <<>>

Min(a, b) == IF a <= b THEN a ELSE b

Max(a, b) == IF a >= b THEN a ELSE b

(***************************************************************************)
(* String primitives, with JavaScript's 0-based offsets.                   *)
(***************************************************************************)

(* s.substring(a, b) for 0 <= a <= b <= s.length *)
Substring(s, a, b) == SubSeq(s, a + 1, b)

(* pat occurs in s at 0-based offset p *)
OccursAt(s, pat, p) ==
    /\ p >= 0
    /\ p + Len(pat) <= Len(s)
    /\ \A k \in 1..Len(pat) : s[p + k] = pat[k]

(* s.indexOf(pat): the first offset, or -1 *)
IndexOf(s, pat) ==
    IF \E p \in 0..Len(s) : OccursAt(s, pat, p)
    THEN CHOOSE p \in 0..Len(s) :
            /\ OccursAt(s, pat, p)
            /\ \A q \in 0..(p - 1) : ~OccursAt(s, pat, q)
    ELSE -1

(* s.includes(pat) *)
Includes(s, pat) == IndexOf(s, pat) # -1

IsSpace(c) == c \in {" ", "\n"}

(* s.trim() *)
RECURSIVE TrimStart(_)
TrimStart(s) == IF s # <<>> /\ IsSpace(Head(s)) THEN TrimStart(Tail(s)) ELSE s

RECURSIVE TrimEnd(_)
TrimEnd(s) ==
    IF s # <<>> /\ IsSpace(s[Len(s)]) THEN TrimEnd(SubSeq(s, 1, Len(s) - 1)) ELSE s

Trim(s) == TrimEnd(TrimStart(s))

(***************************************************************************)
(* The placeholder token grammar \[IMAGE_PLACEHOLDER_(\d+)\].              *)
(***************************************************************************)
DigitChars == <<"0", "1", "2", "3", "4", "5", "6", "7", "8", "9">>

IsDigit(c) == \E d \in 1..10 : DigitChars[d] = c

DigitVal(c) == (CHOOSE d \in 1..10 : DigitChars[d] = c) - 1

(* the decimal numeral of n >= 0, as lexemes: the template `${i + 1}` *)
RECURSIVE Numeral(_)
Numeral(n) ==
    IF n < 10 THEN <<DigitChars[n + 1]>>
    ELSE Numeral(n \div 10) \o <<DigitChars[(n % 10) + 1]>>

(* `[IMAGE_PLACEHOLDER_${i + 1}]` *)
Placeholder(n) == <<"[", "IMAGE_PLACEHOLDER_">> \o Numeral(n) \o <<"]">>

(* last position of the greedy digit run \d+ that starts at position k
   (k - 1 when s[k] is no digit) *)
RECURSIVE DigitRunEnd(_, _)
DigitRunEnd(s, k) ==
    IF k <= Len(s) /\ IsDigit(s[k]) THEN DigitRunEnd(s, k + 1) ELSE k - 1

(* parseInt(p1, 10) of the digits s[a..b] *)
RECURSIVE ParseInt(_, _, _)
ParseInt(s, a, b) ==
    IF b < a THEN 0 ELSE 10 * ParseInt(s, a, b - 1) + DigitVal(s[b])

(* position of the closing "]" of a token that starts at position k, or 0 *)
TokenEnd(s, k) ==
    IF /\ k + 3 <= Len(s)
       /\ s[k] = "["
       /\ s[k + 1] = "IMAGE_PLACEHOLDER_"
       /\ IsDigit(s[k + 2])
       /\ DigitRunEnd(s, k + 2) + 1 <= Len(s)
       /\ s[DigitRunEnd(s, k + 2) + 1] = "]"
    THEN DigitRunEnd(s, k + 2) + 1
    ELSE 0

(* the captured index of the token at position k *)
TokenIndex(s, k) == ParseInt(s, k + 2, TokenEnd(s, k) - 1)

(* positions at which a token of the grammar starts *)
TokenStarts(s) == {k \in 1..Len(s) : TokenEnd(s, k) # 0}

HasToken(s) == TokenStarts(s) # {}

(***************************************************************************)
(* Image references.  A reference is a sequence of lexemes whose first one *)
(* is its scheme prefix, which is all that startsWith inspects.            *)
(***************************************************************************)

(* the media.url of the image synthesized for index tag *)
MediaUrl(tag) == <<"data:image", "/png;base64,">> \o Numeral(tag)

(* `https://placehold.co/600x400.png` *)
PlaceholdUrl == <<"http", "s://placehold.co/600x400.png">>

(* `https://placehold.co/800x400.png` *)
ThumbPlaceholdUrl == <<"http", "s://placehold.co/800x400.png">>

(* `https://picsum.photos/seed/${seed}${n}/400/400` *)
PicsumUrl(seed, n) ==
    <<"http", "s://picsum.photos/seed/", seed>> \o Numeral(n) \o <<"/400/400">>

StartsWith(url, prefix) == url # <<>> /\ url[1] = prefix

(***************************************************************************)
(* Regular expression replacements of content-generator.tsx.               *)
(***************************************************************************)

(* /\*\*(.*?)\*\*/ tried at position k: the position of the closing marker,
   or 0.  The lazy group stops at the first later marker and cannot cross
   a newline. *)
BoldClose(s, k) ==
    IF /\ s[k] = "**"
       /\ \E j \in (k + 1)..Len(s) : s[j] = "**"
    THEN LET j == CHOOSE j \in (k + 1)..Len(s) :
                     /\ s[j] = "**"
                     /\ \A m \in (k + 1)..(j - 1) : s[m] # "**"
         IN IF \A m \in (k + 1)..(j - 1) : s[m] # "\n" THEN j ELSE 0
    ELSE 0

(* s.replace(/\*\*(.*?)\*\*/g, open + '$1' + close), scanning from k *)
RECURSIVE ReplaceBoldFrom(_, _, _, _)
ReplaceBoldFrom(s, k, open, close) ==
    IF k > Len(s) THEN <<>>
    ELSE IF BoldClose(s, k) # 0
         THEN open \o SubSeq(s, k + 1, BoldClose(s, k) - 1) \o close
                \o ReplaceBoldFrom(s, BoldClose(s, k) + 1, open, close)
         ELSE <<s[k]>> \o ReplaceBoldFrom(s, k + 1, open, close)

ReplaceBold(s, open, close) == ReplaceBoldFrom(s, 1, open, close)

(* last position of the run of newlines that starts at k *)
RECURSIVE NewlineRunEnd(_, _)
NewlineRunEnd(s, k) ==
    IF k <= Len(s) /\ s[k] = "\n" THEN NewlineRunEnd(s, k + 1) ELSE k - 1

(* s.replace(/\n\n+/g, '<br /><br />') *)
RECURSIVE ReplaceParagraphBreaks(_, _)
ReplaceParagraphBreaks(s, k) ==
    IF k > Len(s) THEN <<>>
    ELSE IF NewlineRunEnd(s, k) >= k + 1
         THEN <<"<br />", "<br />">>
                \o ReplaceParagraphBreaks(s, NewlineRunEnd(s, k) + 1)
         ELSE <<s[k]>> \o ReplaceParagraphBreaks(s, k + 1)

(* s.replace(/\n/g, '<br />') *)
ReplaceNewlines(s) ==
    [k \in 1..Len(s) |-> IF s[k] = "\n" THEN "<br />" ELSE s[k]]

(* s.replace(/<br\s*\/?>/gi, '\n') *)
ReplaceBrTags(s) ==
    [k \in 1..Len(s) |-> IF s[k] \in {"<br>", "<br />"} THEN "\n" ELSE s[k]]

(* /<figure.*?<\/figure>/ tried at position k: the position of the closing
   tag, or 0 *)
FigureClose(s, k) ==
    IF /\ s[k] = "<figure"
       /\ \E j \in (k + 1)..Len(s) : s[j] = "</figure>"
    THEN LET j == CHOOSE j \in (k + 1)..Len(s) :
                     /\ s[j] = "</figure>"
                     /\ \A m \in (k + 1)..(j - 1) : s[m] # "</figure>"
         IN IF \A m \in (k + 1)..(j - 1) : s[m] # "\n" THEN j ELSE 0
    ELSE 0

(* s.replace(/<figure.*?<\/figure>/gi, ''), scanning from k *)
RECURSIVE RemoveFigures(_, _)
RemoveFigures(s, k) ==
    IF k > Len(s) THEN <<>>
    ELSE IF FigureClose(s, k) # 0
         THEN RemoveFigures(s, FigureClose(s, k) + 1)
         ELSE <<s[k]>> \o RemoveFigures(s, k + 1)

(* lexemes that are markup: setting innerHTML and reading textContent
   drops them and keeps the text between them *)
HtmlTags == {"<br>", "<br />", "<strong>", "</strong>", "<figure", "</figure>"}

TextContent(s) == SelectSeq(s, LAMBDA c : c \notin HtmlTags)

(* handleCopy: the text written to the clipboard *)
CopyText(text) ==
    TextContent(RemoveFigures(ReplaceBrTags(ReplaceBold(text, <<>>, <<>>)), 1))

(* handleExport: the text of the exported .txt file *)
ExportText(title, content, type) ==
    LET plainTextContent ==
            TextContent(RemoveFigures(ReplaceBrTags(ReplaceBold(content, <<>>, <<>>)), 1))
    IN IF type = "Blog Post" /\ ~Falsy(title)
       THEN <<"Title: ">> \o Get(title) \o <<"\n", "\n">> \o plainTextContent
       ELSE plainTextContent

(* the <figure> element renderBlogContent emits for imageIndex (0-based) *)
Figure(imageUrl, altText, imageIndex) ==
    LET finalImageUrl ==
            IF StartsWith(imageUrl, "data:image") \/ StartsWith(imageUrl, "http")
            THEN imageUrl ELSE PlaceholdUrl
    IN <<"<figure", "<img src=">> \o finalImageUrl \o <<" alt=">> \o altText
         \o <<" - illustration ">> \o Numeral(imageIndex + 1) \o <<"/>", "</figure>">>

(* a variant of the callback that reads the captured number as a 0-based
   index *)
RECURSIVE ResolvePlaceholdersZeroBased(_, _, _, _)
ResolvePlaceholdersZeroBased(s, k, imageUrls, altText) ==
    IF k > Len(s) THEN <<>>
    ELSE IF TokenEnd(s, k) # 0
         THEN LET imageIndex == TokenIndex(s, k)
              IN (IF imageIndex >= 0 /\ imageIndex < Len(imageUrls)
                  THEN Figure(imageUrls[imageIndex + 1], altText, imageIndex)
                  ELSE <<>>)
                 \o ResolvePlaceholdersZeroBased(s, TokenEnd(s, k) + 1, imageUrls, altText)
         ELSE <<s[k]>> \o ResolvePlaceholdersZeroBased(s, k + 1, imageUrls, altText)

(* s.replace(/\[IMAGE_PLACEHOLDER_(\d+)\]/g, callback), scanning from k *)
RECURSIVE ResolvePlaceholders(_, _, _, _)
ResolvePlaceholders(s, k, imageUrls, altText) ==
    IF k > Len(s) THEN <<>>
    ELSE IF TokenEnd(s, k) # 0
         THEN LET imageIndex == TokenIndex(s, k) - 1
              IN (IF imageIndex >= 0 /\ imageIndex < Len(imageUrls)
                  THEN Figure(imageUrls[imageIndex + 1], altText, imageIndex)
                  ELSE <<>>)
                 \o ResolvePlaceholders(s, TokenEnd(s, k) + 1, imageUrls, altText)
         ELSE <<s[k]>> \o ResolvePlaceholders(s, k + 1, imageUrls, altText)

(* s.replace(/\[IMAGE_PLACEHOLDER_(\d+)\]/g, ""), scanning from k *)
RECURSIVE StripPlaceholders(_, _)
StripPlaceholders(s, k) ==
    IF k > Len(s) THEN <<>>
    ELSE IF TokenEnd(s, k) # 0
         THEN StripPlaceholders(s, TokenEnd(s, k) + 1)
         ELSE <<s[k]>> \o StripPlaceholders(s, k + 1)

(* renderBlogContent: the __html of a blog post; imageUrls is optional *)
renderBlogContent(blogPost, mainKeyword) ==
    LET bolded == ReplaceBold(Get(blogPost.content), <<"<strong>">>, <<"</strong>">>)
        processedContent == ReplaceNewlines(ReplaceParagraphBreaks(bolded, 1))
        altText == IF ~Falsy(blogPost.title) THEN Get(blogPost.title)
                   ELSE IF mainKeyword # <<>> THEN mainKeyword
                   ELSE <<"Generated blog image">>
    IN IF IsSome(blogPost.imageUrls) /\ Len(Get(blogPost.imageUrls)) > 0
       THEN ResolvePlaceholders(processedContent, 1, Get(blogPost.imageUrls), altText)
       ELSE StripPlaceholders(processedContent, 1)

(***************************************************************************)
(* Bounds of the model and the values the environment (the form, the text  *)
(* model, the image model) is drawn from.                                  *)
(***************************************************************************)

(* numPictures: z.coerce.number().int().min(0).max(5) *)
MaxPictures == 5

(* numImagesPerPost: z.number().int().min(0).max(3) *)
MaxImagesPerPost == 3

(* the largest image count the model explores *)
PicturesBound == 3

PictureCounts == 0..Min(PicturesBound, MaxPictures)

ImagesPerPostCounts == 0..Min(PicturesBound, MaxImagesPerPost)

(* the seoKeywords form field: z.string().optional() *)
SeoKeywordValues ==
    {None, Some(<<>>), Some(<<" ">>), Some(<<" ", "k">>)}

MainKeyword == <<"x", "x", "x">>

(* titles the text model returns; a missing and an empty one included *)
TitleValues == {None, Some(<<>>), Some(<<"x">>)}

(* contents the text model returns for a blog post *)
ContentValues ==
    { None,
      Some(<<>>),
      Some(<<"x">>),
      Some(Placeholder(1) \o <<"**", "x", "**", "\n">> \o Placeholder(2)),
      Some(<<"[", "IMAGE_PLACEHOLDER_">> \o Placeholder(9) \o <<"1", "]">>) }

(* what the blogPostPrompt call resolves to: no output, or title and content *)
TextOutputs ==
    {None} \cup {Some([title |-> t, content |-> c]) : t \in TitleValues, c \in ContentValues}

(* messages of the errors an external call throws *)
ThrownMessages ==
    { <<>>,
      <<"fetch failed">>,
      <<"Candidate was ", "blocked", " due to ", "safety settings">> }

(* the imagePromptText a successful imageGenerationPrompt call returns *)
ImagePromptText == <<"x", "x">>

(* outcomes of one imageGenerationPrompt call *)
PromptOutcomes == {"throw", "empty", "ok"}

(* outcomes of one ai.generate image call *)
SynthOutcomes == {"throw", "nomedia", "ok"}

(* the optimizedContent a successful rewrite returns *)
RewrittenContent == <<"x", "k">>

(* contents and hashtag lists the text model returns for a social post *)
PostContentValues == {<<"x">>, Placeholder(1) \o <<"x">>}

(* output.hashtags of the single post prompt: absent, a list of tags, a
   string, or a value that is neither *)
HashtagValues ==
    { None,
      Some([kind |-> "array", value |-> <<<<"#", "a">>, <<"b">>>>]),
      Some([kind |-> "string", value |-> <<"b", ",", " ", "#", "a">>]),
      Some([kind |-> "string", value |-> <<>>]),
      Some([kind |-> "other", value |-> <<>>]) }

(* the posts a socialMediaTextPrompt call returns, batch revision *)
PostBatches ==
    { <<>>,
      <<[content |-> <<"x">>, hashtags |-> None]>>,
      <<[content |-> Placeholder(2) \o <<"x">>, hashtags |-> Some(<<<<"#", "a">>, <<"b">>>>)],
        [content |-> <<"x">>, hashtags |-> None]>> }

NoPost == [title |-> None, content |-> None, imageUrls |-> None, thumbnailUrl |-> None]

NoReturn == [status |-> "none", post |-> NoPost, message |-> <<>>]

VARIABLES
    revision,                 \* which revision of the flows is deployed, or is called directly
    generatedBlogPost,        \* useState: optional blog post
    generatedSocialMediaPost, \* useState: optional social post
    isLoading,                \* useState
    activeTab,                \* useState
    toasts,                   \* output: the toasts the step just taken issued
    copiedText,               \* output: the text the step just taken wrote to the clipboard
    exportedText,             \* output: the .txt file the step just taken downloaded
    pdfExport,                \* output: the PDF document the step just taken built
    pdfPc,                    \* handleExportPdf: "idle", "images", "canvas", "paging"
    pdfBrokenImages,          \* handleExportPdf: the sources of the article's img elements that were complete with naturalHeight 0 at the click, while Promise.all is awaited
    renderedHtml,             \* the __html renderBlogContent gave the article, while the rendering is followed
    pdfLoop,                  \* handleExportPdf: the canvas and the state of the page loop while it is followed step by step
    blogRequest,              \* output: the blog request the step just taken submitted, as the caller wrote it
    fieldErrors,              \* output: the fields the validation of that request reported
    blogPc,                   \* onBlogSubmit: "idle", "generate", "seo"
    blogData,                 \* onBlogSubmit: the form data of the latest submission
    blogPostResult,           \* onBlogSubmit: local blogPostResult
    socialPc,                 \* onSocialMediaSubmit: "idle", "generate", "seo"
    socialData,               \* onSocialMediaSubmit: the form data of the latest submission
    socialResult,             \* onSocialMediaSubmit: local result
    socialCalls,              \* the external calls of the latest social submission
    flowPc,                   \* the flow: "idle", "text", "prompt", "synth", "done", "failed"
    flowInput,                \* the flow's input
    blogContentOutput,        \* the flow: output of the text stage
    content,                  \* the flow: the text the placeholders are searched in
    imageUrls,                \* the flow: const imageUrls: string[]
    i,                        \* the flow: loop variable of the image loop
    imagePromptText,          \* the flow: the prompt of the image being made
    flowReturn,               \* what the flow returned or threw
    posts,                    \* batch flow: textGenerationOutput.posts
    postIdx,                  \* batch flow: position of the for..of loop
    finalGeneratedPosts,      \* batch flow: the posts built so far
    calls,                    \* the external calls of the running blog, batch or rewrite request, in order
    seoPc,                    \* optimizeForSeoFlow called directly: "idle", "prompt", "done", "failed"
    seoInput,                 \* optimizeForSeoFlow: its input
    seoReturn                 \* optimizeForSeoFlow: what it returned or threw

vars == <<revision, generatedBlogPost, generatedSocialMediaPost, isLoading, activeTab,
          toasts, copiedText, exportedText, pdfExport, pdfPc, pdfLoop, pdfBrokenImages, renderedHtml, blogRequest, fieldErrors, blogPc, blogData, blogPostResult, socialPc,
          socialData, socialResult, socialCalls, flowPc, flowInput, blogContentOutput, content,
          imageUrls, i, imagePromptText, flowReturn, posts, postIdx,
          finalGeneratedPosts, calls, seoPc, seoInput, seoReturn>>

uiVars == <<generatedBlogPost, generatedSocialMediaPost, isLoading, activeTab>>

(* a step that submits no blog request *)
NoSubmission == blogRequest' = None /\ fieldErrors' = {}

(* a step that issues no toast and writes no text *)
Silent ==
    toasts' = <<>> /\ copiedText' = None /\ exportedText' = None /\ pdfExport' = None /\ NoSubmission

blogVars == <<blogPc, blogData, blogPostResult>>

socialVars == <<socialPc, socialData, socialResult, socialCalls>>

flowVars == <<flowPc, flowInput, blogContentOutput, content, imageUrls, i,
              imagePromptText, flowReturn, calls>>

batchVars == <<posts, postIdx, finalGeneratedPosts>>

seoVars == <<seoPc, seoInput, seoReturn>>

NoSeoInput == [content |-> <<>>, keywords |-> <<>>]

NoSeoReturn == [status |-> "none", result |-> None, message |-> <<>>]

NoBlogData == [numPictures |-> 0, seoKeywords |-> None]

NoSocialData == [seoKeywords |-> None]

NoSocialPost == [postContent |-> <<>>, hashtags |-> None]

NoFlowInput == [numPictures |-> 0]

(***************************************************************************)
(* GenerateBlogPostInputSchema and blogFormSchema.                         *)
(***************************************************************************)

MinKeywordLength == 3

MaxKeywordLength == 100

MinWordCount == 700

MaxWordCount == 3000

(* a number: int is its integer part, frac tells whether a fractional part
   follows it, nan whether it is NaN *)
Num(n) == [nan |-> FALSE, int |-> n, frac |-> FALSE]

NumFrac(n) == [nan |-> FALSE, int |-> n, frac |-> TRUE]

NaN == [nan |-> TRUE, int |-> 0, frac |-> FALSE]

(* a value as the caller wrote it: a number, or the string of an input field *)
NumberValue(v) == [type |-> "number", value |-> v]

StringValue(text) == [type |-> "string", value |-> text]

Digits == <<"0", "1", "2", "3", "4", "5", "6", "7", "8", "9">>

IsDigits(text) ==
    text # <<>> /\ \A k \in 1..Len(text) : \E d \in 1..10 : Digits[d] = text[k]

DigitValue(ch) == (CHOOSE d \in 1..10 : Digits[d] = ch) - 1

RECURSIVE DigitsValue(_)
DigitsValue(text) ==
    IF text = <<>> THEN 0
    ELSE DigitsValue(SubSeq(text, 1, Len(text) - 1)) * 10 + DigitValue(text[Len(text)])

(* Number(text) for an unsigned decimal numeral *)
UnsignedNumber(text) ==
    IF IsDigits(text) THEN Num(DigitsValue(text))
    ELSE IF \E k \in 1..Len(text) : text[k] = "."
    THEN LET dot == CHOOSE k \in 1..Len(text) : text[k] = "."
             whole == SubSeq(text, 1, dot - 1)
             part == SubSeq(text, dot + 1, Len(text))
         IN IF IsDigits(whole) /\ IsDigits(part)
            THEN IF \A k \in 1..Len(part) : part[k] = "0"
                 THEN Num(DigitsValue(whole))
                 ELSE NumFrac(DigitsValue(whole))
            ELSE NaN
    ELSE NaN

(* Number(text): the empty string is 0, a numeral its value, any other
   string NaN *)
ToNumber(text) ==
    IF text = <<>> THEN Num(0)
    ELSE IF text[1] = "-"
    THEN LET n == UnsignedNumber(Tail(text))
         IN IF n.nan THEN NaN ELSE [n EXCEPT !.int = 0 - n.int]
    ELSE UnsignedNumber(text)

(* z.coerce.number(): Number(input) *)
CoerceNumber(raw) == IF raw.type = "string" THEN ToNumber(raw.value) ELSE raw.value

(* a variant of the number checks without .int() *)
IntInRangeLax(n, lo, hi) == ~n.nan /\ lo <= n.int /\ n.int <= hi

(* z.coerce.number().int().min(lo).max(hi) passes *)
IntInRange(n, lo, hi) == ~n.nan /\ ~n.frac /\ lo <= n.int /\ n.int <= hi

(* the fields of a blog request the schema reports an issue for *)
SchemaIssues(request) ==
    {f \in {"mainKeyword"} :
        \/ request.mainKeyword.length < MinKeywordLength
        \/ request.mainKeyword.length > MaxKeywordLength}
    \cup {f \in {"numPictures"} : ~IntInRange(CoerceNumber(request.numPictures), 0, MaxPictures)}
    \cup {f \in {"wordCount"} :
              ~IntInRange(CoerceNumber(request.wordCount), MinWordCount, MaxWordCount)}

(* the data the schema hands on for a request without issues *)
ParsedInput(request) ==
    [mainKeyword |-> request.mainKeyword,
     userProvidedTitle |-> request.userProvidedTitle,
     numPictures |-> CoerceNumber(request.numPictures).int,
     wordCount |-> CoerceNumber(request.wordCount).int]

(* a main keyword of n characters, all of them "x" *)
KeywordOf(n) == [char |-> "x", length |-> n]

BlogRequest(mainKeyword, userProvidedTitle, numPictures, wordCount) ==
    [mainKeyword |-> mainKeyword, userProvidedTitle |-> userProvidedTitle,
     numPictures |-> numPictures, wordCount |-> wordCount]

(* the values of the blog form at a click on its submit button: the fields
   of type number hold strings; the default values, every picture count up
   to the bound, the ends of every range and values beyond them *)
BlogFormValues ==
    {BlogRequest(KeywordOf(MinKeywordLength), None, StringValue(<<Digits[n + 1]>>),
                 StringValue(<<"7", "0", "0">>)) : n \in PictureCounts}
    \cup {BlogRequest(k, None, NumberValue(Num(1)), NumberValue(Num(MinWordCount))) :
             k \in {KeywordOf(0), KeywordOf(MinKeywordLength - 1), KeywordOf(MaxKeywordLength),
                    KeywordOf(MaxKeywordLength + 1)}}
    \cup {BlogRequest(KeywordOf(MinKeywordLength), None, StringValue(n), StringValue(<<"7", "0", "0">>)) :
             n \in {<<>>, <<"-", "1">>, <<"6">>, <<"1", ".", "5">>, <<"1", ".", "0">>, <<"e">>}}
    \cup {BlogRequest(KeywordOf(MinKeywordLength), None, StringValue(<<"1">>), StringValue(w)) :
             w \in {<<>>, <<"6", "9", "9">>, <<"3", "0", "0", "0">>, <<"3", "0", "0", "1">>,
                    <<"7", "0", "0", ".", "5">>}}

(* the form values the resolver passes, each with the data it hands to
   onBlogSubmit, and the form values it reports issues for *)
BlogFormData == [values \in {v \in BlogFormValues : SchemaIssues(v) = {}} |-> ParsedInput(values)]

BlogFormIssues == [values \in {v \in BlogFormValues : SchemaIssues(v) # {}} |-> SchemaIssues(values)]

(* the requests of a direct caller of generateBlogPost: numbers, with and
   without a title of the caller's *)
DirectRequests ==
    {BlogRequest(KeywordOf(MinKeywordLength), t, NumberValue(Num(n)), NumberValue(Num(MinWordCount))) :
        t \in {None, Some(<<>>), Some(<<"x">>), Some(<<"t">>)}, n \in 0..1}
    \cup {BlogRequest(k, None, NumberValue(Num(0)), NumberValue(Num(MaxWordCount))) :
             k \in {KeywordOf(MinKeywordLength - 1), KeywordOf(MaxKeywordLength),
                    KeywordOf(MaxKeywordLength + 1)}}
    \cup {BlogRequest(KeywordOf(MinKeywordLength), None, NumberValue(n), NumberValue(Num(MinWordCount))) :
             n \in {Num(0 - 1), Num(MaxPictures + 1), NumFrac(1), NaN}}
    \cup {BlogRequest(KeywordOf(MinKeywordLength), None, NumberValue(Num(0)), NumberValue(w)) :
             w \in {Num(MinWordCount - 1), Num(MaxWordCount + 1), NumFrac(MinWordCount)}}

(* useState initial values and defaultValue="blog"; no handler is running *)
Init ==
    /\ revision \in {"current", "direct", "batch", "seo", "seoChecked"}
    /\ generatedBlogPost = None
    /\ generatedSocialMediaPost = None
    /\ isLoading = FALSE
    /\ activeTab = "blog"
    /\ toasts = <<>>
    /\ copiedText = None
    /\ exportedText = None
    /\ pdfExport = None
    /\ pdfPc = "idle"
    /\ pdfLoop = None
    /\ renderedHtml = None
    /\ pdfBrokenImages = None
    /\ blogRequest = None
    /\ fieldErrors = {}
    /\ blogPc = "idle"
    /\ blogData = NoBlogData
    /\ blogPostResult = NoPost
    /\ socialPc = "idle"
    /\ socialData = NoSocialData
    /\ socialResult = NoSocialPost
    /\ socialCalls = <<>>
    /\ flowPc = "idle"
    /\ flowInput = NoFlowInput
    /\ blogContentOutput = None
    /\ content = <<>>
    /\ imageUrls = <<>>
    /\ i = 0
    /\ imagePromptText = <<>>
    /\ flowReturn = NoReturn
    /\ posts = <<>>
    /\ postIdx = 0
    /\ finalGeneratedPosts = <<>>
    /\ calls = <<>>
    /\ seoPc = "idle"
    /\ seoInput = NoSeoInput
    /\ seoReturn = NoSeoReturn

(***************************************************************************)
(* generateBlogPostFlow and the batch generateSocialMediaPostFlow.         *)
(***************************************************************************)

(* one external call: op is "text", "prompt", "synth" or "seo"; idx the
   1-based image index (0 when the call has none); res how it ended; arg the
   optional text handed to it; url the reference or text it returned (or
   <<>>) *)
Call(op, idx, res, arg, url) == [op |-> op, idx |-> idx, res |-> res, arg |-> arg, url |-> url]

(* the 150 characters of context around a blog placeholder *)
ContextChars == 150

(* the 100 characters of context around a social placeholder *)
SocialContextChars == 100

(* a variant of detailedError that keeps its initial value in every case *)
DetailedErrorGeneric(output) == "The AI model did not return the expected title or content."

(* detailedError of the flow and of onBlogSubmit: output is the optional
   {title, content} *)
DetailedError(output) ==
    IF output = None THEN "The AI model returned no output."
    ELSE IF Falsy(Get(output).title) /\ Falsy(Get(output).content)
         THEN "The AI model returned neither title nor content."
    ELSE IF Falsy(Get(output).title) THEN "The AI model did not return a title."
    ELSE IF Falsy(Get(output).content) THEN "The AI model did not return content."
    ELSE "The AI model did not return the expected title or content."

(* the sentence both error messages end with *)
Advice ==
    << " This might be due to the complexity of the request, an internal issue with the AI, or safety filters ",
       "blocking",
       " the content. Please try simplifying your keywords or topic, ensure it complies with content policies, or try again later." >>

(* a variant of the check of the text stage that only looks for an output *)
TextStageFailedLax(output) == output = None

(* !blogContentOutput || !blogContentOutput.title || !blogContentOutput.content *)
TextStageFailed(output) ==
    output = None \/ Falsy(Get(output).title) \/ Falsy(Get(output).content)

(* the message of the Error the flow throws when the text stage failed *)
FlowErrorMessage(output) ==
    <<"Failed to generate blog post: ", DetailedError(output)>> \o Advice

(* a variant of the context that ends window characters after the start of
   the placeholder *)
ImageContextFromStart(text, n, window) ==
    LET placeholder == Placeholder(n)
        placeholderIndex == IndexOf(text, placeholder)
    IN IF placeholderIndex # -1
       THEN Some(Substring(text,
                           Max(0, placeholderIndex - window),
                           Min(Len(text), placeholderIndex + window)))
       ELSE None

(* the context handed to imageGenerationPrompt for placeholder n *)
ImageContext(text, n, window) ==
    LET placeholder == Placeholder(n)
        placeholderIndex == IndexOf(text, placeholder)
    IN IF placeholderIndex # -1
       THEN Some(Substring(text,
                           Max(0, placeholderIndex - window),
                           Min(Len(text), placeholderIndex + Len(placeholder) + window)))
       ELSE None

(* the reference pushed when image n (1-based) could not be made; cause is
   "throw" (the catch block), "empty" (no prompt text) or "nomedia" *)
FallbackUrl(rev, cause, n) ==
    IF rev \in {"current", "direct"} THEN PlaceholdUrl
    ELSE IF cause = "nomedia" THEN PicsumUrl("socialplaceholder", n)
    ELSE IF cause = "empty" THEN PicsumUrl("socialpromptfail", n)
    ELSE PicsumUrl("socialerror", n)

(* a variant of finalThumbnailUrl that takes the last reference *)
ThumbnailUrlLast(urls, numPictures) ==
    IF Len(urls) > 0 THEN Some(urls[Len(urls)])
    ELSE IF numPictures > 0 THEN Some(ThumbPlaceholdUrl)
    ELSE None

(* finalThumbnailUrl *)
ThumbnailUrl(urls, numPictures) ==
    IF Len(urls) > 0 THEN Some(urls[1])
    ELSE IF numPictures > 0 THEN Some(ThumbPlaceholdUrl)
    ELSE None

(* the object generateBlogPostFlow returns *)
BlogFlowResult(output, urls, numPictures) ==
    [title |-> Get(output).title,
     content |-> Get(output).content,
     imageUrls |-> IF Len(urls) > 0 THEN Some(urls) ELSE None,
     thumbnailUrl |-> ThumbnailUrl(urls, numPictures)]

(* the item the batch flow pushes for one post *)
SocialPostItem(rawPost, urls) ==
    [content |-> rawPost.content,
     hashtags |-> rawPost.hashtags,
     imageUrls |-> IF Len(urls) > 0 THEN Some(urls) ELSE None]

NumImages == flowInput.numPictures

ContextWindow == IF revision \in {"current", "direct"} THEN ContextChars ELSE SocialContextChars

(* the image loop of one text is over with the references urls: the blog flow
   returns; the batch flow pushes the post and goes to the next one *)
LoopDone(urls) ==
    IF revision \in {"current", "direct"}
    THEN /\ flowPc' = "done"
         /\ flowReturn' = [status |-> "ok",
                           post |-> BlogFlowResult(blogContentOutput, urls, NumImages),
                           message |-> <<>>]
         /\ imageUrls' = urls
         /\ i' = i + 1
         /\ UNCHANGED <<content, batchVars>>
    ELSE /\ finalGeneratedPosts' = Append(finalGeneratedPosts, SocialPostItem(posts[postIdx], urls))
         /\ IF postIdx < Len(posts)
            THEN /\ postIdx' = postIdx + 1
                 /\ content' = posts[postIdx + 1].content
                 /\ imageUrls' = <<>>
                 /\ i' = 0
                 /\ flowPc' = "prompt"
                 /\ UNCHANGED flowReturn
            ELSE /\ flowPc' = "done"
                 /\ flowReturn' = [status |-> "ok", post |-> NoPost, message |-> <<>>]
                 /\ imageUrls' = urls
                 /\ i' = i + 1
                 /\ UNCHANGED <<postIdx, content>>
         /\ UNCHANGED posts

(* a variant of the push that drops the slot of an image that was not
   synthesized *)
PushSlotOrDrop(url) ==
    LET urls == IF StartsWith(url, "data:image") THEN Append(imageUrls, url) ELSE imageUrls
    IN IF i + 1 < NumImages
       THEN /\ imageUrls' = urls
            /\ i' = i + 1
            /\ flowPc' = "prompt"
            /\ UNCHANGED <<content, flowReturn, batchVars>>
       ELSE LoopDone(urls)

(* a variant of the push that leaves the loop at the first image that was not
   synthesized *)
PushSlotStop(url) ==
    IF i + 1 < NumImages /\ StartsWith(url, "data:image")
    THEN /\ imageUrls' = Append(imageUrls, url)
         /\ i' = i + 1
         /\ flowPc' = "prompt"
         /\ UNCHANGED <<content, flowReturn, batchVars>>
    ELSE LoopDone(Append(imageUrls, url))

(* a variant of the push that goes on with the index after the next *)
PushSlotSkip(url) ==
    IF i + 2 < NumImages
    THEN /\ imageUrls' = Append(imageUrls, url)
         /\ i' = i + 2
         /\ flowPc' = "prompt"
         /\ UNCHANGED <<content, flowReturn, batchVars>>
    ELSE LoopDone(Append(imageUrls, url))

(* a variant of the push that puts the reference in front *)
PushSlotFront(url) ==
    IF i + 1 < NumImages
    THEN /\ imageUrls' = <<url>> \o imageUrls
         /\ i' = i + 1
         /\ flowPc' = "prompt"
         /\ UNCHANGED <<content, flowReturn, batchVars>>
    ELSE LoopDone(<<url>> \o imageUrls)

(* a variant of the push that tries the same index again when the image was
   not synthesized *)
PushSlotRetry(url) ==
    IF ~StartsWith(url, "data:image")
    THEN /\ flowPc' = "prompt"
         /\ UNCHANGED <<imageUrls, i, content, flowReturn, batchVars>>
    ELSE IF i + 1 < NumImages
    THEN /\ imageUrls' = Append(imageUrls, url)
         /\ i' = i + 1
         /\ flowPc' = "prompt"
         /\ UNCHANGED <<content, flowReturn, batchVars>>
    ELSE LoopDone(Append(imageUrls, url))

(* imageUrls.push(url), then the loop's i++ and test *)
PushSlot(url) ==
    IF i + 1 < NumImages
    THEN /\ imageUrls' = Append(imageUrls, url)
         /\ i' = i + 1
         /\ flowPc' = "prompt"
         /\ UNCHANGED <<content, flowReturn, batchVars>>
    ELSE LoopDone(Append(imageUrls, url))

(* await blogPostPrompt(...) throws *)
BlogTextThrows ==
    /\ revision \in {"current", "direct"}
    /\ flowPc = "text"
    /\ \E msg \in ThrownMessages :
          flowReturn' = [status |-> "error", post |-> NoPost, message |-> msg]
    /\ flowPc' = "failed"
    /\ calls' = Append(calls, Call("text", 0, "throw", None, <<>>))
    /\ UNCHANGED <<flowInput, blogContentOutput, content, imageUrls, i, imagePromptText>>
    /\ UNCHANGED <<revision, pdfLoop, renderedHtml, pdfBrokenImages, pdfPc, seoVars, uiVars, blogVars, socialVars, batchVars>>
    /\ Silent

(* await blogPostPrompt(...) resolves; the check of title and content; with
   no picture requested the flow returns at once *)
BlogTextReturns ==
    /\ revision \in {"current", "direct"}
    /\ flowPc = "text"
    /\ \E output \in TextOutputs :
          /\ blogContentOutput' = output
          /\ calls' = Append(calls, Call("text", 0, IF output = None THEN "null" ELSE "ok", None, <<>>))
          /\ IF TextStageFailed(output)
             THEN /\ flowPc' = "failed"
                  /\ flowReturn' = [status |-> "error", post |-> NoPost,
                                    message |-> FlowErrorMessage(output)]
                  /\ UNCHANGED <<content, imageUrls, i>>
             ELSE IF flowInput.numPictures > 0 /\ ~Falsy(Get(output).content)
             THEN /\ flowPc' = "prompt"
                  /\ content' = Get(Get(output).content)
                  /\ imageUrls' = <<>>
                  /\ i' = 0
                  /\ UNCHANGED flowReturn
             ELSE /\ flowPc' = "done"
                  /\ flowReturn' = [status |-> "ok",
                                    post |-> BlogFlowResult(output, <<>>, flowInput.numPictures),
                                    message |-> <<>>]
                  /\ imageUrls' = <<>>
                  /\ UNCHANGED <<content, i>>
    /\ UNCHANGED <<flowInput, imagePromptText>>
    /\ UNCHANGED <<revision, pdfLoop, renderedHtml, pdfBrokenImages, pdfPc, seoVars, uiVars, blogVars, socialVars, batchVars>>
    /\ Silent

(* await imageGenerationPrompt(...) for image i + 1: it throws (the catch
   block pushes the fallback), returns no prompt text (the else branch
   pushes the fallback), or returns the prompt text *)
ImagePrompt ==
    /\ flowPc = "prompt"
    /\ \E outcome \in PromptOutcomes :
          /\ calls' = Append(calls, Call("prompt", i + 1, outcome,
                                         ImageContext(content, i + 1, ContextWindow), <<>>))
          /\ IF outcome = "ok"
             THEN /\ imagePromptText' = ImagePromptText
                  /\ flowPc' = "synth"
                  /\ UNCHANGED <<content, imageUrls, i, flowReturn, batchVars>>
             ELSE /\ PushSlot(FallbackUrl(revision, outcome, i + 1))
                  /\ UNCHANGED imagePromptText
    /\ UNCHANGED <<flowInput, blogContentOutput>>
    /\ UNCHANGED <<revision, pdfLoop, renderedHtml, pdfBrokenImages, pdfPc, seoVars, uiVars, blogVars, socialVars>>
    /\ Silent

(* await ai.generate(...) for image i + 1: it throws, returns no media url,
   or returns the url of the synthesized image *)
ImageSynth ==
    /\ flowPc = "synth"
    /\ \E outcome \in SynthOutcomes :
          LET url == IF outcome = "ok" THEN MediaUrl(i + 1)
                     ELSE FallbackUrl(revision, outcome, i + 1)
          IN /\ calls' = Append(calls, Call("synth", i + 1, outcome, Some(imagePromptText),
                                            IF outcome = "ok" THEN url ELSE <<>>))
             /\ PushSlot(url)
    /\ UNCHANGED <<flowInput, blogContentOutput, imagePromptText>>
    /\ UNCHANGED <<revision, pdfLoop, renderedHtml, pdfBrokenImages, pdfPc, seoVars, uiVars, blogVars, socialVars>>
    /\ Silent

(* a caller invokes generateBlogPost: the flow checks the input against its
   inputSchema and, when it passes, runs up to the await of blogPostPrompt *)
CallGenerateBlogPost ==
    /\ revision = "direct"
    /\ flowPc \in {"idle", "done", "failed"}
    /\ \E request \in DirectRequests :
          /\ blogRequest' = Some(request)
          /\ fieldErrors' = SchemaIssues(request)
          /\ IF SchemaIssues(request) = {}
             THEN /\ flowInput' = ParsedInput(request)
                  /\ flowPc' = "text"
                  /\ flowReturn' = NoReturn
             ELSE /\ flowInput' = NoFlowInput
                  /\ flowPc' = "failed"
                  /\ flowReturn' = [status |-> "invalid", post |-> NoPost, message |-> <<>>]
    /\ blogContentOutput' = None
    /\ content' = <<>>
    /\ imageUrls' = <<>>
    /\ i' = 0
    /\ imagePromptText' = <<>>
    /\ calls' = <<>>
    /\ toasts' = <<>>
    /\ copiedText' = None
    /\ exportedText' = None
    /\ pdfExport' = None
    /\ UNCHANGED <<revision, pdfLoop, renderedHtml, pdfBrokenImages, pdfPc, seoVars, uiVars, blogVars, socialVars, batchVars>>

(* a caller invokes generateSocialMediaPost of the batch revision *)
CallSocialBatch ==
    /\ revision = "batch"
    /\ flowPc \in {"idle", "done", "failed"}
    /\ \E n \in ImagesPerPostCounts : flowInput' = [numPictures |-> n]
    /\ flowPc' = "text"
    /\ blogContentOutput' = None
    /\ content' = <<>>
    /\ imageUrls' = <<>>
    /\ i' = 0
    /\ imagePromptText' = <<>>
    /\ flowReturn' = NoReturn
    /\ posts' = <<>>
    /\ postIdx' = 0
    /\ finalGeneratedPosts' = <<>>
    /\ calls' = <<>>
    /\ UNCHANGED <<revision, pdfLoop, renderedHtml, pdfBrokenImages, pdfPc, seoVars, uiVars, blogVars, socialVars>>
    /\ Silent

(* await socialMediaTextPrompt(input) throws *)
BatchTextThrows ==
    /\ revision = "batch"
    /\ flowPc = "text"
    /\ \E msg \in ThrownMessages :
          flowReturn' = [status |-> "error", post |-> NoPost, message |-> msg]
    /\ flowPc' = "failed"
    /\ calls' = Append(calls, Call("text", 0, "throw", None, <<>>))
    /\ UNCHANGED <<flowInput, blogContentOutput, content, imageUrls, i, imagePromptText>>
    /\ UNCHANGED <<revision, pdfLoop, renderedHtml, pdfBrokenImages, pdfPc, seoVars, uiVars, blogVars, socialVars, batchVars>>
    /\ Silent

(* await socialMediaTextPrompt(input) resolves: without output the flow
   throws; with no image per post every post is pushed without a further
   call; otherwise the image loop of the first post starts *)
BatchTextReturns ==
    /\ revision = "batch"
    /\ flowPc = "text"
    /\ \E output \in {None} \cup {Some(b) : b \in PostBatches} :
          /\ calls' = Append(calls, Call("text", 0, IF output = None THEN "null" ELSE "ok", None, <<>>))
          /\ IF output = None
             THEN /\ flowPc' = "failed"
                  /\ flowReturn' = [status |-> "error", post |-> NoPost,
                                    message |-> <<"Failed to generate social media post text content.">>]
                  /\ UNCHANGED <<content, batchVars>>
             ELSE IF Get(output) = <<>> \/ flowInput.numPictures = 0
             THEN /\ flowPc' = "done"
                  /\ flowReturn' = [status |-> "ok", post |-> NoPost, message |-> <<>>]
                  /\ posts' = Get(output)
                  /\ postIdx' = Len(Get(output))
                  /\ finalGeneratedPosts' =
                        [k \in 1..Len(Get(output)) |-> SocialPostItem(Get(output)[k], <<>>)]
                  /\ UNCHANGED content
             ELSE /\ flowPc' = "prompt"
                  /\ posts' = Get(output)
                  /\ postIdx' = 1
                  /\ content' = Get(output)[1].content
                  /\ UNCHANGED <<flowReturn, finalGeneratedPosts>>
    /\ UNCHANGED <<flowInput, blogContentOutput, imageUrls, i, imagePromptText>>
    /\ UNCHANGED <<revision, pdfLoop, renderedHtml, pdfBrokenImages, pdfPc, seoVars, uiVars, blogVars, socialVars>>
    /\ Silent

(***************************************************************************)
(* optimizeForSeo and the single post generateSocialMediaPostFlow.         *)
(***************************************************************************)

(* what the rewrite prompt resolves to: no output, or {optimizedContent} *)
RewriteOutputs == {None, Some([optimizedContent |-> <<>>]), Some([optimizedContent |-> RewrittenContent])}

(* optimizeForSeoFlow: const {output} = await prompt(input); return output! *)
OptimizeForSeoFlow(output) == output

(* !output || !output.optimizedContent of the revision that checks the
   output of the rewrite prompt *)
RewriteFailed(output) == output = None \/ Get(output).optimizedContent = <<>>

(* the keyword strings a direct caller of optimizeForSeo passes *)
DirectKeywords == {<<>>, <<" ">>, <<" ", "k">>}

(* a caller invokes optimizeForSeo(input); both schema fields are strings *)
CallOptimizeForSeo ==
    /\ revision \in {"seo", "seoChecked"}
    /\ seoPc \in {"idle", "done", "failed"}
    /\ \E kw \in DirectKeywords : seoInput' = [content |-> <<"x">>, keywords |-> kw]
    /\ seoPc' = "prompt"
    /\ seoReturn' = NoSeoReturn
    /\ calls' = <<>>
    /\ Silent
    /\ UNCHANGED <<flowPc, flowInput, blogContentOutput, content, imageUrls, i,
                   imagePromptText, flowReturn>>
    /\ UNCHANGED <<revision, pdfLoop, renderedHtml, pdfBrokenImages, pdfPc, uiVars, blogVars, socialVars, batchVars>>

(* await prompt(input) of optimizeForSeoFlow throws *)
SeoPromptThrows ==
    /\ seoPc = "prompt"
    /\ \E msg \in ThrownMessages :
          seoReturn' = [status |-> "error", result |-> None, message |-> msg]
    /\ seoPc' = "failed"
    /\ calls' = Append(calls, Call("rewrite", 0, "throw", Some(seoInput.keywords), <<>>))
    /\ Silent
    /\ UNCHANGED <<flowPc, flowInput, blogContentOutput, content, imageUrls, i,
                   imagePromptText, flowReturn>>
    /\ UNCHANGED <<revision, pdfLoop, renderedHtml, pdfBrokenImages, pdfPc, seoInput, uiVars, blogVars, socialVars, batchVars>>

(* await prompt(input) of optimizeForSeoFlow resolves: one revision returns
   output! as it is, the other throws unless it holds optimized content *)
SeoPromptReturns ==
    /\ seoPc = "prompt"
    /\ \E output \in RewriteOutputs :
          /\ calls' = Append(calls, Call("rewrite", 0, IF output = None THEN "null" ELSE "ok",
                                         Some(seoInput.keywords), <<>>))
          /\ IF revision = "seoChecked" /\ RewriteFailed(output)
             THEN /\ seoPc' = "failed"
                  /\ seoReturn' =
                        [status |-> "error", result |-> None,
                         message |-> <<"Failed to optimize content for SEO. The AI model did not return optimized content.">>]
             ELSE /\ seoPc' = "done"
                  /\ seoReturn' = [status |-> "ok", result |-> OptimizeForSeoFlow(output),
                                   message |-> <<>>]
    /\ Silent
    /\ UNCHANGED <<flowPc, flowInput, blogContentOutput, content, imageUrls, i,
                   imagePromptText, flowReturn>>
    /\ UNCHANGED <<revision, pdfLoop, renderedHtml, pdfBrokenImages, pdfPc, seoInput, uiVars, blogVars, socialVars, batchVars>>

(* what the socialMediaPostPrompt call resolves to *)
SocialOutputs ==
    {None} \cup {Some([postContent |-> c, hashtags |-> h]) : c \in PostContentValues, h \in HashtagValues}

(* the characters /[,#\s]+/ matches *)
TagSeparators == {",", "#", " ", "\n"}

(* text.split(/[,#\s]+/).filter(h => h.length > 0): the pieces between
   separators, in order; piece is the one being read *)
RECURSIVE SplitTags(_, _)
SplitTags(text, piece) ==
    IF text = <<>> THEN (IF piece = <<>> THEN <<>> ELSE <<piece>>)
    ELSE IF text[1] \in TagSeparators
    THEN (IF piece = <<>> THEN <<>> ELSE <<piece>>) \o SplitTags(Tail(text), <<>>)
    ELSE SplitTags(Tail(text), Append(piece, text[1]))

(* `#${h.replace(/^#/, '')}` *)
HashPrefixed(h) == <<"#">> \o (IF StartsWith(h, "#") THEN Tail(h) ELSE h)

(* h.startsWith('#') ? h : `#${h}` *)
NormalizeTag(h) == IF StartsWith(h, "#") THEN h ELSE <<"#">> \o h

(* hashtags of generateSocialMediaPostFlow's result: hashtags || [] after
   the normalisation of a string or of a list *)
NormalizeHashtags(hashtags) ==
    IF hashtags = None THEN <<>>
    ELSE LET h == Get(hashtags)
         IN IF h.kind = "string"
            THEN (IF h.value = <<>> THEN <<>>
                  ELSE LET pieces == SplitTags(h.value, <<>>)
                       IN [k \in 1..Len(pieces) |-> HashPrefixed(pieces[k])])
            ELSE IF h.kind = "array"
            THEN [k \in 1..Len(h.value) |-> NormalizeTag(h.value[k])]
            ELSE <<>>

(* the object the single post generateSocialMediaPostFlow returns *)
SocialFlowResult(output) ==
    [postContent |-> Get(output).postContent, hashtags |-> NormalizeHashtags(Get(output).hashtags)]

(***************************************************************************)
(* ContentGenerator.                                                       *)
(***************************************************************************)

Toast(title, description, variant) ==
    [title |-> title, description |-> description, variant |-> variant]

(* a variant of the keyword test without the trim *)
SeoRequestedNoTrim(seoKeywords) == ~Falsy(seoKeywords)

(* data.seoKeywords && data.seoKeywords.trim() !== '' *)
SeoRequested(seoKeywords) == ~Falsy(seoKeywords) /\ Trim(Get(seoKeywords)) # <<>>

(* errorMessage of onBlogSubmit's catch block, for error.message *)
BlogErrorMessage(message) ==
    IF message # <<>>
    THEN IF Includes(message, <<"blocked">>) \/ Includes(message, <<"safety settings">>)
         THEN <<"Content generation was blocked due to safety settings. Please revise your input or try a different topic.">>
         ELSE message
    ELSE <<"Failed to generate blog post. Please try again.">>

(* errorMessage of onSocialMediaSubmit's catch block *)
SocialErrorMessage(message) ==
    IF message # <<>>
    THEN IF Includes(message, <<"blocked">>) \/ Includes(message, <<"safety settings">>)
         THEN <<"Content generation was blocked due to safety settings. Please revise your input or try a different topic.">>
         ELSE <<"Failed to generate social media post: ">> \o message \o <<". Please try again.">>
    ELSE <<"Failed to generate social media post. Please try again.">>

(* the message of the Error onBlogSubmit throws for an unusable result *)
UiErrorMessage(result) ==
    <<DetailedError(Some([title |-> result.title, content |-> result.content]))>> \o Advice

(* the toast of the inner catch block: the rewrite failed *)
SeoIssueToast(message) ==
    Toast("SEO Optimization Issue",
          <<"Could not optimize for SEO: ">> \o message \o <<". Displaying original content.">>,
          "destructive")

(* message of the TypeError of reading optimizedContent of no result *)
NullResultMessage == <<"Cannot read properties of null (reading 'optimizedContent')">>

(* the useEffect on activeTab *)
SetActiveTab ==
    /\ revision = "current"
    /\ \E tab \in {"blog", "social", "headings"} :
          /\ tab # activeTab
          /\ activeTab' = tab
          /\ IF tab = "headings"
             THEN generatedBlogPost' = None /\ generatedSocialMediaPost' = None
             ELSE UNCHANGED <<generatedBlogPost, generatedSocialMediaPost>>
    /\ Silent
    /\ UNCHANGED <<revision, pdfLoop, renderedHtml, pdfBrokenImages, pdfPc, seoVars, isLoading, blogVars, socialVars, flowVars, batchVars>>

(* disabled={isLoading && activeTab === 'blog'} of the blog form's submit
   button *)
BlogSubmitDisabled == isLoading /\ activeTab = "blog"

(* a variant of the social form's button that is disabled on the blog tab *)
SocialSubmitDisabledOnBlogTab == isLoading /\ activeTab = "blog"

(* disabled={isLoading && activeTab === 'social'} of the social form's
   submit button *)
SocialSubmitDisabled == isLoading /\ activeTab = "social"

(* onBlogSubmit up to its await generateBlogPost(...): the submit button of
   the blog tab is disabled while isLoading; what is kept of the previous
   submission of either form is forgotten *)
OnBlogSubmit ==
    /\ revision = "current"
    /\ activeTab = "blog"
    /\ ~BlogSubmitDisabled
    /\ \E values \in DOMAIN BlogFormData, kw \in SeoKeywordValues :
          /\ blogRequest' = Some(values)
          /\ blogData' = [numPictures |-> BlogFormData[values].numPictures, seoKeywords |-> kw]
          /\ flowInput' = BlogFormData[values]
    /\ fieldErrors' = {}
    /\ isLoading' = TRUE
    /\ generatedBlogPost' = None
    /\ generatedSocialMediaPost' = None
    /\ blogPc' = "generate"
    /\ blogPostResult' = NoPost
    /\ flowPc' = "text"
    /\ calls' = <<>>
    /\ toasts' = <<>>
    /\ copiedText' = None
    /\ exportedText' = None
    /\ pdfExport' = None
    /\ socialData' = NoSocialData
    /\ socialCalls' = <<>>
    /\ UNCHANGED <<blogContentOutput, content, imageUrls, i, imagePromptText, flowReturn>>
    /\ UNCHANGED <<revision, pdfLoop, renderedHtml, pdfBrokenImages, pdfPc, seoVars, activeTab, socialPc, socialResult, batchVars>>

(* a click on the blog form's submit button with values the resolver
   reports an issue for: handleSubmit shows the messages and does not call
   onBlogSubmit *)
BlogFormRejects ==
    /\ revision = "current"
    /\ activeTab = "blog"
    /\ ~BlogSubmitDisabled
    /\ \E values \in DOMAIN BlogFormIssues :
          /\ blogRequest' = Some(values)
          /\ fieldErrors' = BlogFormIssues[values]
    /\ toasts' = <<>>
    /\ copiedText' = None
    /\ exportedText' = None
    /\ pdfExport' = None
    /\ UNCHANGED <<revision, pdfLoop, renderedHtml, pdfBrokenImages, pdfPc, seoVars, uiVars, blogVars, socialVars, flowVars, batchVars>>

(* the handler is over: the calls of its request are gone *)
BlogEnds ==
    /\ blogPc' = "idle"
    /\ UNCHANGED blogData
    /\ blogPostResult' = NoPost
    /\ calls' = <<>>
    /\ copiedText' = None
    /\ exportedText' = None
    /\ pdfExport' = None
    /\ NoSubmission

(* the catch and finally blocks of onBlogSubmit *)
BlogFails(message) ==
    /\ toasts' = <<Toast("Error Generating Blog Post", BlogErrorMessage(message), "destructive")>>
    /\ isLoading' = FALSE
    /\ UNCHANGED generatedBlogPost
    /\ BlogEnds

(* setGeneratedBlogPost(blogPostResult), its toast, and the finally block *)
BlogStores(result, seoToasts) ==
    /\ generatedBlogPost' = Some(result)
    /\ toasts' = seoToasts
                   \o <<Toast("Blog Post Generated!",
                              <<"Your blog post has been successfully generated.">>, "default")>>
    /\ isLoading' = FALSE
    /\ BlogEnds

(* onBlogSubmit from the completion of generateBlogPost to its next await or
   its end; the flow's activation is over *)
BlogResume ==
    /\ blogPc = "generate"
    /\ flowPc \in {"done", "failed"}
    /\ IF flowReturn.status = "error"
       THEN BlogFails(flowReturn.message)
       ELSE IF Falsy(flowReturn.post.title) \/ Falsy(flowReturn.post.content)
       THEN BlogFails(UiErrorMessage(flowReturn.post))
       ELSE IF SeoRequested(blogData.seoKeywords)
       THEN /\ blogPc' = "seo"
            /\ blogPostResult' = flowReturn.post
            /\ calls' = Append(calls, Call("seo", 0, "issued", blogData.seoKeywords, <<>>))
            /\ Silent
            /\ UNCHANGED <<generatedBlogPost, isLoading, blogData>>
       ELSE BlogStores(flowReturn.post, <<>>)
    /\ flowPc' = "idle"
    /\ flowInput' = NoFlowInput
    /\ blogContentOutput' = None
    /\ content' = <<>>
    /\ imageUrls' = <<>>
    /\ i' = 0
    /\ imagePromptText' = <<>>
    /\ flowReturn' = NoReturn
    /\ UNCHANGED <<revision, pdfLoop, renderedHtml, pdfBrokenImages, pdfPc, seoVars, generatedSocialMediaPost, activeTab, socialVars, batchVars>>

(* a variant of the inner catch block that hands the error to the outer one *)
BlogSeoThrowsFatal ==
    /\ blogPc = "seo"
    /\ \E msg \in ThrownMessages : BlogFails(msg)
    /\ UNCHANGED <<flowPc, flowInput, blogContentOutput, content, imageUrls, i, imagePromptText, flowReturn>>
    /\ UNCHANGED <<revision, pdfLoop, renderedHtml, pdfBrokenImages, pdfPc, seoVars, generatedSocialMediaPost, activeTab, socialVars, batchVars>>

(* await optimizeForSeo({content, keywords}) of onBlogSubmit throws *)
BlogSeoThrows ==
    /\ blogPc = "seo"
    /\ \E msg \in ThrownMessages :
          BlogStores(blogPostResult, <<SeoIssueToast(msg)>>)
    /\ UNCHANGED <<flowPc, flowInput, blogContentOutput, content, imageUrls, i, imagePromptText, flowReturn>>
    /\ UNCHANGED <<revision, pdfLoop, renderedHtml, pdfBrokenImages, pdfPc, seoVars, generatedSocialMediaPost, activeTab, socialVars, batchVars>>

(* a variant of the rewrite's success that stores the rewritten content
   alone, without the references of the images *)
BlogSeoReturnsContentOnly ==
    /\ blogPc = "seo"
    /\ \E output \in RewriteOutputs :
          LET seoResult == OptimizeForSeoFlow(output)
          IN IF seoResult = None
             THEN BlogStores(blogPostResult, <<SeoIssueToast(NullResultMessage)>>)
             ELSE BlogStores([blogPostResult EXCEPT !.content = Some(Get(seoResult).optimizedContent),
                                                    !.imageUrls = None, !.thumbnailUrl = None],
                             <<Toast("Blog Post SEO Optimized!",
                                     <<"Blog post content has been optimized for your SEO keywords.">>,
                                     "default")>>)
    /\ UNCHANGED <<flowPc, flowInput, blogContentOutput, content, imageUrls, i, imagePromptText, flowReturn>>
    /\ UNCHANGED <<revision, pdfLoop, renderedHtml, pdfBrokenImages, pdfPc, seoVars, generatedSocialMediaPost, activeTab, socialVars, batchVars>>

(* await optimizeForSeo({content, keywords}) of onBlogSubmit resolves *)
BlogSeoReturns ==
    /\ blogPc = "seo"
    /\ \E output \in RewriteOutputs :
          LET seoResult == OptimizeForSeoFlow(output)
          IN IF seoResult = None
             THEN BlogStores(blogPostResult, <<SeoIssueToast(NullResultMessage)>>)
             ELSE BlogStores([blogPostResult EXCEPT !.content = Some(Get(seoResult).optimizedContent)],
                             <<Toast("Blog Post SEO Optimized!",
                                     <<"Blog post content has been optimized for your SEO keywords.">>,
                                     "default")>>)
    /\ UNCHANGED <<flowPc, flowInput, blogContentOutput, content, imageUrls, i, imagePromptText, flowReturn>>
    /\ UNCHANGED <<revision, pdfLoop, renderedHtml, pdfBrokenImages, pdfPc, seoVars, generatedSocialMediaPost, activeTab, socialVars, batchVars>>

(* a variant of onSocialMediaSubmit without its setGeneratedBlogPost(null) *)
OnSocialMediaSubmitKeepsBlogPost ==
    /\ revision = "current"
    /\ activeTab = "social"
    /\ ~SocialSubmitDisabled
    /\ \E kw \in SeoKeywordValues : socialData' = [seoKeywords |-> kw]
    /\ isLoading' = TRUE
    /\ generatedSocialMediaPost' = None
    /\ socialPc' = "generate"
    /\ socialResult' = NoSocialPost
    /\ socialCalls' = <<>>
    /\ blogData' = NoBlogData
    /\ Silent
    /\ UNCHANGED <<revision, pdfLoop, renderedHtml, pdfBrokenImages, pdfPc, seoVars, activeTab, generatedBlogPost,
                   blogPc, blogPostResult, flowVars, batchVars>>

(* onSocialMediaSubmit up to its await generateSocialMediaPost(data): the
   submit button of the social tab is disabled while isLoading; what is
   kept of the previous submission of either form is forgotten *)
OnSocialMediaSubmit ==
    /\ revision = "current"
    /\ activeTab = "social"
    /\ ~SocialSubmitDisabled
    /\ \E kw \in SeoKeywordValues : socialData' = [seoKeywords |-> kw]
    /\ isLoading' = TRUE
    /\ generatedSocialMediaPost' = None
    /\ generatedBlogPost' = None
    /\ socialPc' = "generate"
    /\ socialResult' = NoSocialPost
    /\ socialCalls' = <<>>
    /\ blogData' = NoBlogData
    /\ Silent
    /\ UNCHANGED <<revision, pdfLoop, renderedHtml, pdfBrokenImages, pdfPc, seoVars, activeTab, blogPc, blogPostResult, flowVars, batchVars>>

(* the handler is over *)
SocialEnds ==
    /\ socialPc' = "idle"
    /\ UNCHANGED socialData
    /\ socialResult' = NoSocialPost
    /\ copiedText' = None
    /\ exportedText' = None
    /\ pdfExport' = None
    /\ NoSubmission

(* the catch and finally blocks of onSocialMediaSubmit *)
SocialFails(message) ==
    /\ toasts' = <<Toast("Error Generating Social Media Post", SocialErrorMessage(message),
                         "destructive")>>
    /\ isLoading' = FALSE
    /\ UNCHANGED generatedSocialMediaPost
    /\ SocialEnds

(* setGeneratedSocialMediaPost(result), its toast, and the finally block *)
SocialStores(result, seoToasts) ==
    /\ generatedSocialMediaPost' = Some(result)
    /\ toasts' = seoToasts
                   \o <<Toast("Social Media Post Generated!", <<"Your post is ready.">>, "default")>>
    /\ isLoading' = FALSE
    /\ SocialEnds

(* generateSocialMediaPost(data) rejects: the prompt call throws *)
SocialGenerateThrows ==
    /\ socialPc = "generate"
    /\ \E msg \in ThrownMessages : SocialFails(msg)
    /\ socialCalls' = <<Call("text", 0, "throw", None, <<>>)>>
    /\ UNCHANGED <<revision, pdfLoop, renderedHtml, pdfBrokenImages, pdfPc, seoVars, generatedBlogPost, activeTab, blogVars, flowVars, batchVars>>

(* the prompt call of generateSocialMediaPostFlow resolves; the flow throws
   without output, else returns; onSocialMediaSubmit goes on to its next
   await or its end *)
SocialGenerateReturns ==
    /\ socialPc = "generate"
    /\ \E output \in SocialOutputs :
          IF output = None
          THEN /\ SocialFails(<<"Failed to generate social media post content.">>)
               /\ socialCalls' = <<Call("text", 0, "null", None, <<>>)>>
          ELSE IF SeoRequested(socialData.seoKeywords)
          THEN /\ socialPc' = "seo"
               /\ socialResult' = SocialFlowResult(output)
               /\ socialCalls' = <<Call("text", 0, "ok", None, Get(output).postContent),
                                   Call("seo", 0, "issued", socialData.seoKeywords, <<>>)>>
               /\ Silent
               /\ UNCHANGED <<generatedSocialMediaPost, isLoading, socialData>>
          ELSE /\ SocialStores(SocialFlowResult(output), <<>>)
               /\ socialCalls' = <<Call("text", 0, "ok", None, Get(output).postContent)>>
    /\ UNCHANGED <<revision, pdfLoop, renderedHtml, pdfBrokenImages, pdfPc, seoVars, generatedBlogPost, activeTab, blogVars, flowVars, batchVars>>

(* await optimizeForSeo({content, keywords}) of onSocialMediaSubmit throws *)
SocialSeoThrows ==
    /\ socialPc = "seo"
    /\ \E msg \in ThrownMessages :
          SocialStores(socialResult, <<SeoIssueToast(msg)>>)
    /\ UNCHANGED socialCalls
    /\ UNCHANGED <<revision, pdfLoop, renderedHtml, pdfBrokenImages, pdfPc, seoVars, generatedBlogPost, activeTab, blogVars, flowVars, batchVars>>

(* await optimizeForSeo({content, keywords}) of onSocialMediaSubmit resolves *)
SocialSeoReturns ==
    /\ socialPc = "seo"
    /\ \E output \in RewriteOutputs :
          LET seoResult == OptimizeForSeoFlow(output)
          IN IF seoResult = None
             THEN SocialStores(socialResult, <<SeoIssueToast(NullResultMessage)>>)
             ELSE SocialStores([socialResult EXCEPT !.postContent = Get(seoResult).optimizedContent],
                               <<Toast("Social Post SEO Optimized!",
                                       <<"Social media post content has been optimized for your SEO keywords.">>,
                                       "default")>>)
    /\ UNCHANGED socialCalls
    /\ UNCHANGED <<revision, pdfLoop, renderedHtml, pdfBrokenImages, pdfPc, seoVars, generatedBlogPost, activeTab, blogVars, flowVars, batchVars>>

(* the CardFooter with the Copy Text and Export Text buttons is rendered *)
FooterShown ==
    /\ \/ generatedBlogPost # None /\ activeTab = "blog"
       \/ generatedSocialMediaPost # None /\ activeTab = "social"
    /\ ~isLoading

(* the content both buttons hand over: generatedBlogPost?.content on the blog
   tab, generatedSocialMediaPost?.postContent otherwise *)
ShownText ==
    IF activeTab = "blog" THEN Get(generatedBlogPost).content
    ELSE Some(Get(generatedSocialMediaPost).postContent)

(* the title handleExport gets: generatedBlogPost?.title, or the platform *)
ShownTitle ==
    IF activeTab = "blog" THEN Get(generatedBlogPost).title ELSE Some(<<"Twitter">>)

(* a click on Copy Text: handleCopy(text) with a non-empty text *)
HandleCopy ==
    /\ revision = "current"
    /\ FooterShown
    /\ ~Falsy(ShownText)
    /\ copiedText' = Some(CopyText(Get(ShownText)))
    /\ exportedText' = None
    /\ pdfExport' = None
    /\ NoSubmission
    /\ toasts' = <<Toast("Copied!", <<"Text content copied to clipboard.">>, "default")>>
    /\ UNCHANGED <<revision, pdfLoop, renderedHtml, pdfBrokenImages, pdfPc, seoVars, uiVars, blogVars, socialVars, flowVars, batchVars>>

(* a click on Export Text: handleExport(title, content, type) with a
   non-empty content *)
HandleExport ==
    /\ revision = "current"
    /\ FooterShown
    /\ ~Falsy(ShownText)
    /\ exportedText' = Some(ExportText(ShownTitle, Get(ShownText),
                                       IF activeTab = "blog" THEN "Blog Post"
                                       ELSE "Social Media Post"))
    /\ copiedText' = None
    /\ pdfExport' = None
    /\ NoSubmission
    /\ toasts' = <<Toast("Exported!", <<"(text only) exported as a .txt file.">>, "default")>>
    /\ UNCHANGED <<revision, pdfLoop, renderedHtml, pdfBrokenImages, pdfPc, seoVars, uiVars, blogVars, socialVars, flowVars, batchVars>>

(* the largest canvas height and page capacity the model explores, in a common
   unit of source pixels in which both are whole numbers *)
MaxCanvasHeight == 5

MaxPageCapacity == 3

(* the state of the while loop of handleExportPdf at its entry: a new jsPDF
   document has one page *)
LoopEntry(positionOnCanvas, pageCount) ==
    [positionOnCanvas |-> positionOnCanvas, pageCount |-> pageCount, pages |-> 1,
     chunks |-> <<>>, thrown |-> FALSE]

(* a variant of the iteration that adds no chunk and does not advance when
   less than a full page is left *)
PageStepStalls(canvasHeight, capacity, contextLost, st) ==
    LET pageCount == st.pageCount + 1
        pages == IF pageCount > 1 THEN st.pages + 1 ELSE st.pages
        sourceChunkHeightPx == Min(canvasHeight - st.positionOnCanvas, capacity)
    IN IF sourceChunkHeightPx < capacity
       THEN st
       ELSE IF pageCount = contextLost
       THEN [st EXCEPT !.pageCount = pageCount, !.pages = pages, !.thrown = TRUE]
       ELSE [positionOnCanvas |-> st.positionOnCanvas + sourceChunkHeightPx,
             pageCount |-> pageCount,
             pages |-> pages,
             chunks |-> Append(st.chunks, [offset |-> st.positionOnCanvas,
                                           height |-> sourceChunkHeightPx, page |-> pages]),
             thrown |-> FALSE]

(* one iteration of the while loop: pageCount++, addPage for every page but
   the first, the chunk height, then the chunk drawn on the current page and
   the position advanced, or the throw when getContext('2d') gave null;
   contextLost is the number of the page for which it does (0: for none) *)
PageStep(canvasHeight, capacity, contextLost, st) ==
    LET pageCount == st.pageCount + 1
        pages == IF pageCount > 1 THEN st.pages + 1 ELSE st.pages
        sourceChunkHeightPx == Min(canvasHeight - st.positionOnCanvas, capacity)
    IN IF pageCount = contextLost
       THEN [st EXCEPT !.pageCount = pageCount, !.pages = pages, !.thrown = TRUE]
       ELSE [positionOnCanvas |-> st.positionOnCanvas + sourceChunkHeightPx,
             pageCount |-> pageCount,
             pages |-> pages,
             chunks |-> Append(st.chunks, [offset |-> st.positionOnCanvas,
                                           height |-> sourceChunkHeightPx, page |-> pages]),
             thrown |-> FALSE]

(* the loop's test *)
LoopRuns(canvasHeight, st) == ~st.thrown /\ st.positionOnCanvas < canvasHeight

(* the while loop run from the state st to its end *)
RECURSIVE PageLoop(_, _, _, _)
PageLoop(canvasHeight, capacity, contextLost, st) ==
    IF LoopRuns(canvasHeight, st)
    THEN PageLoop(canvasHeight, capacity, contextLost, PageStep(canvasHeight, capacity, contextLost, st))
    ELSE st

(* a variant of the loop that draws every chunk at the full capacity *)
PageChunksFullPages(canvasHeight, capacity, positionOnCanvas, pageCount, contextLost) ==
    LET st == PageLoop(canvasHeight, capacity, contextLost, LoopEntry(positionOnCanvas, pageCount))
    IN [st EXCEPT !.chunks = [k \in 1..Len(st.chunks) |-> [st.chunks[k] EXCEPT !.height = capacity]]]

(* a variant of the loop that draws every later chunk from one row higher *)
PageChunksOverlap(canvasHeight, capacity, positionOnCanvas, pageCount, contextLost) ==
    LET st == PageLoop(canvasHeight, capacity, contextLost, LoopEntry(positionOnCanvas, pageCount))
    IN [st EXCEPT !.chunks = [k \in 1..Len(st.chunks) |->
                                [st.chunks[k] EXCEPT !.offset = Max(0, st.chunks[k].offset - 1)]]]

(* a variant of the loop that leaves out a chunk without a context *)
PageChunksSkipLost(canvasHeight, capacity, positionOnCanvas, pageCount, contextLost) ==
    LET st == PageLoop(canvasHeight, capacity, 0, LoopEntry(positionOnCanvas, pageCount))
    IN [st EXCEPT !.chunks = SelectSeq(st.chunks, LAMBDA c : c.page # contextLost)]

(* a variant of the loop that adds a page for the first chunk too *)
PageChunksPageEach(canvasHeight, capacity, positionOnCanvas, pageCount, contextLost) ==
    LET st == PageLoop(canvasHeight, capacity, contextLost, LoopEntry(positionOnCanvas, pageCount))
    IN [st EXCEPT !.pages = st.pages + (IF st.pageCount > 0 THEN 1 ELSE 0),
                  !.chunks = [k \in 1..Len(st.chunks) |->
                                [st.chunks[k] EXCEPT !.page = st.chunks[k].page + 1]]]

(* the while loop of handleExportPdf from positionOnCanvas on, pageCount pages
   having been made; capacity is pdfHeight * ratio; contextLost is the number
   of the page whose getContext('2d') returns null (0: none does).  It gives
   the chunks drawn and added to the document, each with its page, the
   number of pages of the document, and whether the loop threw. *)
PageChunks(canvasHeight, capacity, positionOnCanvas, pageCount, contextLost) ==
    PageLoop(canvasHeight, capacity, contextLost, LoopEntry(positionOnCanvas, pageCount))

(* the src attributes of the img elements of a block of html *)
ImgSources(html) ==
    {SubSeq(html, k + 1,
            (CHOOSE j \in (k + 1)..Len(html) :
                /\ html[j] = " alt="
                /\ \A m \in (k + 1)..(j - 1) : html[m] # " alt=") - 1) :
        k \in {k \in 1..Len(html) : html[k] = "<img src="}}

(* input.getElementsByTagName('img'): the thumbnail when the post has one
   and the images of the rendered content *)
ArticleImages(blogPost) ==
    (IF ~Falsy(blogPost.thumbnailUrl) THEN {Get(blogPost.thumbnailUrl)} ELSE {})
    \cup ImgSources(renderBlogContent(blogPost, MainKeyword))

(* img.src.startsWith('data:') *)
IsDataUri(src) == StartsWith(src, "data:image")

(* a variant in which the promise of every image settles *)
ImagesSettleAlways(broken) == TRUE

(* every promise handed to Promise.all settles: no image that is complete
   with naturalHeight 0 has a source other than a data: URI *)
ImagesSettle(broken) == \A src \in broken : IsDataUri(src)

(* a click on Export PDF, up to the await of the images: the button is in
   the footer, for a stored blog post on the blog tab *)
HandleExportPdf ==
    /\ revision = "current"
    /\ FooterShown
    /\ generatedBlogPost # None /\ activeTab = "blog"
    /\ ~isLoading
    /\ isLoading' = TRUE
    /\ pdfPc' = "images"
    /\ \E broken \in SUBSET ArticleImages(Get(generatedBlogPost)) : pdfBrokenImages' = Some(broken)
    /\ Silent
    /\ UNCHANGED <<revision, pdfLoop, renderedHtml, seoVars, generatedBlogPost, generatedSocialMediaPost, activeTab,
                   blogVars, socialVars, flowVars, batchVars>>

(* await Promise.all(...) resolves.  The promise of an image that is
   complete with a naturalHeight is resolved; that of a data: image settles
   with the load or error of a new Image; that of any other image settles
   with the next load or error event of the element itself, which an
   element that is already complete does not fire again *)
PdfImagesSettled ==
    /\ pdfPc = "images"
    /\ ImagesSettle(Get(pdfBrokenImages))
    /\ pdfPc' = "canvas"
    /\ pdfBrokenImages' = None
    /\ Silent
    /\ UNCHANGED <<revision, pdfLoop, renderedHtml, seoVars, uiVars, blogVars, socialVars, flowVars, batchVars>>

(* the catch and finally blocks of handleExportPdf *)
PdfFails(message) ==
    /\ toasts' = <<Toast("Error Exporting PDF",
                         <<"Failed to export blog post as PDF. ">> \o message, "destructive")>>
    /\ isLoading' = FALSE
    /\ pdfPc' = "idle"
    /\ copiedText' = None
    /\ exportedText' = None

(* await html2canvas(...) rejects *)
PdfCanvasThrows ==
    /\ pdfPc = "canvas"
    /\ \E msg \in ThrownMessages : PdfFails(msg)
    /\ pdfExport' = None
    /\ NoSubmission
    /\ UNCHANGED <<revision, pdfLoop, renderedHtml, pdfBrokenImages, seoVars, generatedBlogPost, generatedSocialMediaPost, activeTab,
                   blogVars, socialVars, flowVars, batchVars>>

(* await html2canvas(...) resolves with a canvas of a width above 0: the
   page loop, then pdf.save and its toast, or the catch block; then the
   finally block; contextLost is the page whose getContext('2d') returns
   null, 0 for none *)
PdfCanvasReturns ==
    /\ pdfPc = "canvas"
    /\ \E canvasHeight \in 0..MaxCanvasHeight, capacity \in 1..MaxPageCapacity :
       \E contextLost \in 0..canvasHeight :
          LET loop == PageChunks(canvasHeight, capacity, 0, 0, contextLost)
          IN /\ NoSubmission
             /\ pdfExport' = Some([canvasHeight |-> canvasHeight, capacity |-> capacity,
                                   contextLost |-> contextLost,
                                   chunks |-> loop.chunks, pages |-> loop.pages,
                                   saved |-> ~loop.thrown])
             /\ IF loop.thrown
                THEN PdfFails(<<"Could not create temporary canvas context for PDF generation.">>)
                ELSE /\ toasts' = <<Toast("PDF Exported!", <<"Blog post exported as PDF.">>,
                                          "default")>>
                     /\ isLoading' = FALSE
                     /\ pdfPc' = "idle"
                     /\ copiedText' = None
                     /\ exportedText' = None
    /\ UNCHANGED <<revision, pdfLoop, renderedHtml, pdfBrokenImages, seoVars, generatedBlogPost, generatedSocialMediaPost, activeTab,
                   blogVars, socialVars, flowVars, batchVars>>

Next ==
    \/ SetActiveTab
    \/ OnBlogSubmit
    \/ BlogFormRejects
    \/ CallGenerateBlogPost
    \/ BlogTextThrows
    \/ BlogTextReturns
    \/ ImagePrompt
    \/ ImageSynth
    \/ BlogResume
    \/ BlogSeoThrows
    \/ BlogSeoReturns
    \/ OnSocialMediaSubmit
    \/ SocialGenerateThrows
    \/ SocialGenerateReturns
    \/ SocialSeoThrows
    \/ SocialSeoReturns
    \/ HandleCopy
    \/ HandleExport
    \/ HandleExportPdf
    \/ PdfImagesSettled
    \/ PdfCanvasThrows
    \/ PdfCanvasReturns
    \/ CallSocialBatch
    \/ BatchTextThrows
    \/ BatchTextReturns
    \/ CallOptimizeForSeo
    \/ SeoPromptThrows
    \/ SeoPromptReturns

Spec == Init /\ [][Next]_vars

(***************************************************************************)
(* The image loop of generateBlogPostFlow on contents longer than the      *)
(* context window.                                                         *)
(***************************************************************************)

(* n characters c *)
Run(c, n) == [k \in 1..n |-> c]

(* the lengths of text around a placeholder: none, and the lengths about
   the window *)
Margins == {0, ContextChars - 1, ContextChars, ContextChars + 1}

(* contents of the text stage: the placeholder of index 1 or 2 with margins
   on both sides, the placeholder of index 1 twice with the one of index 2
   in between, and no placeholder *)
LongContents ==
    {Run("x", b) \o Placeholder(n) \o Run("y", a) : b \in Margins, a \in Margins, n \in 1..2}
    \cup {Run("x", b) \o Placeholder(1) \o Run("y", ContextChars + 1) \o Placeholder(2)
             \o Placeholder(1) \o Run("z", a) : b \in Margins, a \in Margins}
    \cup {Run("x", ContextChars + 1)}

(* generateBlogPost was called for two pictures and blogPostPrompt has
   returned a title and a content: the flow is at its first
   imageGenerationPrompt call *)
ContextInit ==
    /\ revision = "direct"
    /\ generatedBlogPost = None
    /\ generatedSocialMediaPost = None
    /\ isLoading = FALSE
    /\ activeTab = "blog"
    /\ toasts = <<>>
    /\ copiedText = None
    /\ exportedText = None
    /\ pdfExport = None
    /\ pdfPc = "idle"
    /\ pdfLoop = None
    /\ renderedHtml = None
    /\ pdfBrokenImages = None
    /\ blogRequest = None
    /\ fieldErrors = {}
    /\ blogPc = "idle"
    /\ blogData = NoBlogData
    /\ blogPostResult = NoPost
    /\ socialPc = "idle"
    /\ socialData = NoSocialData
    /\ socialResult = NoSocialPost
    /\ socialCalls = <<>>
    /\ flowPc = "prompt"
    /\ flowInput = ParsedInput(BlogRequest(KeywordOf(MinKeywordLength), None,
                                           NumberValue(Num(2)), NumberValue(Num(MinWordCount))))
    /\ \E text \in LongContents :
          /\ blogContentOutput = Some([title |-> Some(<<"x">>), content |-> Some(text)])
          /\ content = text
    /\ imageUrls = <<>>
    /\ i = 0
    /\ imagePromptText = <<>>
    /\ flowReturn = NoReturn
    /\ posts = <<>>
    /\ postIdx = 0
    /\ finalGeneratedPosts = <<>>
    /\ calls = <<Call("text", 0, "ok", None, <<>>)>>
    /\ seoPc = "idle"
    /\ seoInput = NoSeoInput
    /\ seoReturn = NoSeoReturn

ContextNext ==
    \/ ImagePrompt
    \/ ImageSynth

ContextSpec == ContextInit /\ [][ContextNext]_vars

(***************************************************************************)
(* The page loop of handleExportPdf, one iteration at a time.              *)
(***************************************************************************)

(* a blog post is shown, Export PDF was clicked and html2canvas has
   resolved: handleExportPdf is at the entry of its page loop *)
PagingInit ==
    /\ revision = "current"
    /\ generatedBlogPost = Some([title |-> Some(<<"x">>), content |-> Some(<<"x">>),
                                 imageUrls |-> None, thumbnailUrl |-> None])
    /\ generatedSocialMediaPost = None
    /\ isLoading = TRUE
    /\ activeTab = "blog"
    /\ toasts = <<>>
    /\ copiedText = None
    /\ exportedText = None
    /\ pdfExport = None
    /\ pdfPc = "paging"
    /\ renderedHtml = None
    /\ pdfBrokenImages = None
    /\ \E canvasHeight \in 0..MaxCanvasHeight, capacity \in 1..MaxPageCapacity :
       \E contextLost \in 0..canvasHeight :
          pdfLoop = Some([canvasHeight |-> canvasHeight, capacity |-> capacity,
                          contextLost |-> contextLost, st |-> LoopEntry(0, 0)])
    /\ blogRequest = None
    /\ fieldErrors = {}
    /\ blogPc = "idle"
    /\ blogData = NoBlogData
    /\ blogPostResult = NoPost
    /\ socialPc = "idle"
    /\ socialData = NoSocialData
    /\ socialResult = NoSocialPost
    /\ socialCalls = <<>>
    /\ flowPc = "idle"
    /\ flowInput = NoFlowInput
    /\ blogContentOutput = None
    /\ content = <<>>
    /\ imageUrls = <<>>
    /\ i = 0
    /\ imagePromptText = <<>>
    /\ flowReturn = NoReturn
    /\ posts = <<>>
    /\ postIdx = 0
    /\ finalGeneratedPosts = <<>>
    /\ calls = <<>>
    /\ seoPc = "idle"
    /\ seoInput = NoSeoInput
    /\ seoReturn = NoSeoReturn

(* the loop's test holds: one iteration *)
PdfPage ==
    /\ pdfPc = "paging"
    /\ LoopRuns(Get(pdfLoop).canvasHeight, Get(pdfLoop).st)
    /\ pdfLoop' = Some([Get(pdfLoop) EXCEPT
                           !.st = PageStep(Get(pdfLoop).canvasHeight, Get(pdfLoop).capacity,
                                           Get(pdfLoop).contextLost, Get(pdfLoop).st)])
    /\ Silent
    /\ UNCHANGED <<revision, renderedHtml, pdfBrokenImages, pdfPc, seoVars, uiVars, blogVars, socialVars, flowVars, batchVars>>

(* the loop is left: by its test, then pdf.save and its toast; or by the
   throw, then the catch block; then the finally block *)
PdfPagesEnd ==
    /\ pdfPc = "paging"
    /\ ~LoopRuns(Get(pdfLoop).canvasHeight, Get(pdfLoop).st)
    /\ LET loop == Get(pdfLoop).st
       IN /\ NoSubmission
          /\ pdfExport' = Some([canvasHeight |-> Get(pdfLoop).canvasHeight,
                                capacity |-> Get(pdfLoop).capacity,
                                contextLost |-> Get(pdfLoop).contextLost,
                                chunks |-> loop.chunks, pages |-> loop.pages,
                                saved |-> ~loop.thrown])
          /\ IF loop.thrown
             THEN PdfFails(<<"Could not create temporary canvas context for PDF generation.">>)
             ELSE /\ toasts' = <<Toast("PDF Exported!", <<"Blog post exported as PDF.">>,
                                       "default")>>
                  /\ isLoading' = FALSE
                  /\ pdfPc' = "idle"
                  /\ copiedText' = None
                  /\ exportedText' = None
    /\ pdfLoop' = None
    /\ UNCHANGED <<revision, renderedHtml, pdfBrokenImages, seoVars, generatedBlogPost, generatedSocialMediaPost,
                   activeTab, blogVars, socialVars, flowVars, batchVars>>

PagingNext ==
    \/ PdfPage
    \/ PdfPagesEnd

(* the loop is synchronous code: once entered it runs on *)
PagingSpec == PagingInit /\ [][PagingNext]_vars /\ WF_vars(PagingNext)

(***************************************************************************)
(* The component with every external call answered.                        *)
(***************************************************************************)

LiveInit == Init /\ revision = "current"

(* what the user does: tab changes and clicks *)
UserStep ==
    \/ SetActiveTab
    \/ OnBlogSubmit
    \/ BlogFormRejects
    \/ OnSocialMediaSubmit
    \/ HandleCopy
    \/ HandleExport
    \/ HandleExportPdf

(* the continuation of a handler after an await: the awaited call returned
   or threw *)
Completion ==
    \/ BlogTextThrows
    \/ BlogTextReturns
    \/ ImagePrompt
    \/ ImageSynth
    \/ BlogResume
    \/ BlogSeoThrows
    \/ BlogSeoReturns
    \/ SocialGenerateThrows
    \/ SocialGenerateReturns
    \/ SocialSeoThrows
    \/ SocialSeoReturns
    \/ PdfImagesSettled
    \/ PdfCanvasThrows
    \/ PdfCanvasReturns

LiveNext == UserStep \/ Completion

(* every external call returns or throws in the end, and a handler whose
   await has settled runs on *)
LiveSpec == LiveInit /\ [][LiveNext]_vars /\ WF_vars(Completion)

(***************************************************************************)
(* The rendering of the article of a stored blog post.                     *)
(***************************************************************************)

(* contents of a stored blog post: tokens of index 0, of the indices of the
   images, of indices beyond them, with a leading zero, repeated, out of
   order, nested, without digits, beside bold text and line breaks *)
RenderContents ==
    { <<"x">>,
      Placeholder(0) \o <<"x">>,
      <<"x">> \o Placeholder(1) \o <<"x">> \o Placeholder(1),
      Placeholder(2) \o Placeholder(1),
      Placeholder(1) \o Placeholder(2) \o Placeholder(3),
      Placeholder(3) \o <<"\n", "\n">> \o Placeholder(4),
      <<"[", "IMAGE_PLACEHOLDER_", "0", "1", "]", "x">>,
      <<"[", "IMAGE_PLACEHOLDER_", "1", "0", "]">> \o Placeholder(2),
      <<"**">> \o Placeholder(1) \o <<"x", "**", "\n">> \o Placeholder(0),
      <<"[", "IMAGE_PLACEHOLDER_", "]">> \o Placeholder(1),
      <<"[", "IMAGE_PLACEHOLDER_">> \o Placeholder(9) \o <<"1", "]">> }

(* the imageUrls of a blog result: absent, or one reference per requested
   image, each the media url of its index or the fallback *)
RenderImageUrls ==
    {None} \cup
    {Some([k \in 1..n |-> IF k \in synthesized THEN MediaUrl(k) ELSE PlaceholdUrl]) :
        n \in 1..PicturesBound, synthesized \in SUBSET (1..PicturesBound)}

(* a blog post is stored and its article is about to be rendered *)
RenderInit ==
    /\ revision = "current"
    /\ \E title \in {Some(<<>>), Some(<<"t">>)}, c \in RenderContents, urls \in RenderImageUrls :
          generatedBlogPost =
             Some([title |-> title, content |-> Some(c), imageUrls |-> urls,
                   thumbnailUrl |-> IF urls = None THEN None ELSE Some(Get(urls)[1])])
    /\ generatedSocialMediaPost = None
    /\ isLoading = FALSE
    /\ activeTab = "blog"
    /\ toasts = <<>>
    /\ copiedText = None
    /\ exportedText = None
    /\ pdfExport = None
    /\ pdfPc = "idle"
    /\ pdfLoop = None
    /\ renderedHtml = None
    /\ pdfBrokenImages = None
    /\ blogRequest = None
    /\ fieldErrors = {}
    /\ blogPc = "idle"
    /\ blogData = NoBlogData
    /\ blogPostResult = NoPost
    /\ socialPc = "idle"
    /\ socialData = NoSocialData
    /\ socialResult = NoSocialPost
    /\ socialCalls = <<>>
    /\ flowPc = "idle"
    /\ flowInput = NoFlowInput
    /\ blogContentOutput = None
    /\ content = <<>>
    /\ imageUrls = <<>>
    /\ i = 0
    /\ imagePromptText = <<>>
    /\ flowReturn = NoReturn
    /\ posts = <<>>
    /\ postIdx = 0
    /\ finalGeneratedPosts = <<>>
    /\ calls = <<>>
    /\ seoPc = "idle"
    /\ seoInput = NoSeoInput
    /\ seoReturn = NoSeoReturn

(* dangerouslySetInnerHTML={{ __html: renderBlogContent(generatedBlogPost) }} *)
RenderArticle ==
    /\ generatedBlogPost # None
    /\ activeTab = "blog"
    /\ renderedHtml = None
    /\ renderedHtml' = Some(renderBlogContent(Get(generatedBlogPost), MainKeyword))
    /\ UNCHANGED <<revision, pdfLoop, pdfBrokenImages, pdfPc, pdfExport, toasts, copiedText, exportedText,
                   blogRequest, fieldErrors, seoVars, uiVars, blogVars, socialVars, flowVars,
                   batchVars>>

RenderNext == RenderArticle

RenderSpec == RenderInit /\ [][RenderNext]_vars

(***************************************************************************)
(* Properties.                                                             *)
(***************************************************************************)

(* generateBlogPostFlow has returned its result *)
Returned == revision = "current" /\ flowPc = "done"

(* number of entries of an optional list of references *)
SlotsOf(urls) == IF urls = None THEN 0 ELSE Len(Get(urls))

(* positions in the log of the image calls made for index k *)
CallsOf(k) == {c \in 1..Len(calls) : calls[c].idx = k /\ calls[c].op \in {"prompt", "synth"}}

(* the image call that settled index k *)
LastCallOf(k) == calls[CHOOSE c \in CallsOf(k) : \A d \in CallsOf(k) : d <= c]

(* the picsum fallbacks of the batch flow for index k *)
BatchFallbacks(k) ==
    {PicsumUrl(seed, k) : seed \in {"socialplaceholder", "socialpromptfail", "socialerror"}}

(* C1: whenever the text stage succeeded, the returned imageUrls has exactly
   as many entries as images were requested, and is absent exactly when none
   was requested: for the result of the blog flow and for every post of the
   batch flow, whichever image calls failed and whether or not the text
   holds the token of an index. *)
C1_ImageUrlsLength ==
    /\ Returned =>
          /\ SlotsOf(flowReturn.post.imageUrls) = NumImages
          /\ (flowReturn.post.imageUrls = None) <=> (NumImages = 0)
    /\ revision = "batch" =>
          \A p \in 1..Len(finalGeneratedPosts) :
             /\ SlotsOf(finalGeneratedPosts[p].imageUrls) = NumImages
             /\ (finalGeneratedPosts[p].imageUrls = None) <=> (NumImages = 0)

(* three images were requested, the text has no token of index 3, a prompt
   call threw and a synthesis returned no image; three references came back *)
C1_Witness ==
    /\ Returned
    /\ NumImages = 3
    /\ IndexOf(content, Placeholder(3)) = -1
    /\ \E c \in 1..Len(calls) : calls[c].op = "prompt" /\ calls[c].res = "throw"
    /\ \E c \in 1..Len(calls) : calls[c].op = "synth" /\ calls[c].res = "nomedia"
    /\ SlotsOf(flowReturn.post.imageUrls) = 3

(* C2: the fallback reference of a failed index is seeded by the index, so
   the fallbacks of two different failed indices of one text are different
   references. *)
C2_FallbackSeededByIndex ==
    \A j, k \in 1..Len(imageUrls) :
       (j # k /\ LastCallOf(j).res # "ok" /\ LastCallOf(k).res # "ok")
          => imageUrls[j] # imageUrls[k]

(* C3: the text Copy Text puts on the clipboard and the text Export Text
   writes to the .txt file hold no placeholder token, for every generated
   blog post. *)
C3_NoTokenInExportedText ==
    activeTab = "blog" =>
       /\ copiedText # None => ~HasToken(Get(copiedText))
       /\ exportedText # None => ~HasToken(Get(exportedText))

(* C4: the block renderBlogContent produces for the stored blog post holds
   no placeholder token. *)
C4_NoTokenInRenderedContent ==
    generatedBlogPost # None =>
       ~HasToken(renderBlogContent(Get(generatedBlogPost), MainKeyword))

(* C5: in the result generateBlogPost returns, and in the one the UI stores,
   thumbnailUrl is the first entry of imageUrls when there is one and is
   absent otherwise. *)
C5_ThumbnailIsFirstImage ==
    LET Agrees(post) ==
            IF SlotsOf(post.imageUrls) > 0
            THEN post.thumbnailUrl = Some(Get(post.imageUrls)[1])
            ELSE post.thumbnailUrl = None
    IN /\ Returned => Agrees(flowReturn.post)
       /\ generatedBlogPost # None => Agrees(Get(generatedBlogPost))

(* a result whose first and last references differ *)
C5_Witness ==
    /\ Returned
    /\ SlotsOf(flowReturn.post.imageUrls) = 3
    /\ Get(flowReturn.post.imageUrls)[1] # Get(flowReturn.post.imageUrls)[3]
    /\ flowReturn.post.thumbnailUrl = Some(Get(flowReturn.post.imageUrls)[1])

(* C6: when the text stage returns nothing usable, the error toast of
   onBlogSubmit carries the diagnostic of the case that occurred: no output,
   title and content both missing or empty, only the title, only the
   content; the four diagnostics are pairwise distinct. *)
C6_DiagnosticReachesCaller ==
    [][(/\ blogPc = "generate"
        /\ blogPc' = "idle"
        /\ flowPc = "failed"
        /\ calls[Len(calls)].res # "throw")
       => LET out == blogContentOutput
              noTitle == out # None /\ Get(out).title \in {None, Some(<<>>)}
              noContent == out # None /\ Get(out).content \in {None, Some(<<>>)}
              diagnostic ==
                  IF out = None THEN "The AI model returned no output."
                  ELSE IF noTitle /\ noContent
                       THEN "The AI model returned neither title nor content."
                  ELSE IF noTitle THEN "The AI model did not return a title."
                  ELSE "The AI model did not return content."
          IN /\ out = None \/ noTitle \/ noContent
             /\ Len(toasts') = 1
             /\ toasts'[1].title = "Error Generating Blog Post"
             /\ toasts'[1].variant = "destructive"
             /\ toasts'[1].description[1] = "Failed to generate blog post: "
             /\ toasts'[1].description[2] = diagnostic
             /\ Cardinality({"The AI model returned no output.",
                             "The AI model returned neither title nor content.",
                             "The AI model did not return a title.",
                             "The AI model did not return content."}) = 4
      ]_vars

(* the toast of a request whose text stage returned content without title *)
C6_Witness ==
    /\ toasts # <<>>
    /\ toasts[1].title = "Error Generating Blog Post"
    /\ Includes(toasts[1].description, <<"The AI model did not return a title.">>)

(* the text stage of the running blog request is over and gave nothing
   usable *)
TextStageUnusable ==
    /\ revision = "current"
    /\ flowPc \notin {"idle", "text"}
    /\ \/ blogContentOutput = None
       \/ Get(blogContentOutput).title \in {None, Some(<<>>)}
       \/ Get(blogContentOutput).content \in {None, Some(<<>>)}

(* C7: once the text stage has thrown or returned a missing or empty title
   or content, the flow has failed with the text call as its only call, no
   step appends a call for that request, nothing is stored, and the step of
   onBlogSubmit that follows ends it with a single error toast. *)
C7_FailedTextStageAborts ==
    /\ [](TextStageUnusable =>
            /\ flowPc = "failed"
            /\ flowReturn.status = "error"
            /\ Len(calls) = 1 /\ calls[1].op = "text"
            /\ generatedBlogPost = None)
    /\ [][TextStageUnusable =>
            /\ calls' = calls \/ calls' = <<>>
            /\ generatedBlogPost' = None
            /\ blogPc' # blogPc =>
                  /\ blogPc' = "idle"
                  /\ ~isLoading'
                  /\ Len(toasts') = 1
                  /\ toasts'[1].title = "Error Generating Blog Post"
                  /\ toasts'[1].variant = "destructive"
       ]_vars

(* the text stage returned a missing field for a request with three images
   and SEO keywords *)
C7_Witness ==
    /\ revision = "current"
    /\ flowPc = "failed"
    /\ blogContentOutput # None
    /\ blogData.numPictures = 3
    /\ blogData.seoKeywords = Some(<<" ", "k">>)
    /\ Len(calls) = 1

(* C8: a failure of the image of one index is local: every filled slot is
   settled by the calls of its own index alone, every index 1..N has been
   attempted when the flow returns, and the request fails only with the text
   call as its last call, or before any call when its input is rejected. *)
C8_ImageFailureIsLocal ==
    /\ \A k \in 1..Len(imageUrls) :
          /\ CallsOf(k) # {}
          /\ imageUrls[k] = IF LastCallOf(k).res = "ok" THEN MediaUrl(k)
                            ELSE FallbackUrl(revision, LastCallOf(k).res, k)
    /\ (flowPc = "done" /\ NumImages > 0 /\ (revision = "batch" => posts # <<>>)) =>
          /\ Len(imageUrls) = NumImages
          /\ \A k \in 1..NumImages : \E c \in CallsOf(k) : calls[c].op = "prompt"
    /\ flowPc = "failed" =>
          IF flowReturn.status = "invalid" THEN calls = <<>> ELSE calls[Len(calls)].op = "text"

(* index 1 failed at the prompt, index 2 was synthesized, index 3 failed at
   the synthesis *)
C8_Witness ==
    /\ Returned
    /\ NumImages = 3
    /\ LastCallOf(1).res = "throw"
    /\ imageUrls[2] = MediaUrl(2)
    /\ LastCallOf(3).res = "nomedia"

(* C9: in the result of the blog flow, entry k is the reference synthesized
   for index k when its synthesis succeeded and a fallback otherwise; in
   every post of the batch flow, entry k is the reference synthesized for
   index k or one of the fallbacks of index k. *)
C9_SlotOrder ==
    /\ Returned =>
          \A k \in 1..SlotsOf(flowReturn.post.imageUrls) :
             LET url == Get(flowReturn.post.imageUrls)[k]
                 synthesized == {c \in CallsOf(k) : calls[c].op = "synth" /\ calls[c].res = "ok"}
             IN IF synthesized # {}
                THEN \A c \in synthesized : url = calls[c].url /\ url = MediaUrl(k)
                ELSE ~StartsWith(url, "data:image")
    /\ revision = "batch" =>
          \A p \in 1..Len(finalGeneratedPosts) :
             \A k \in 1..SlotsOf(finalGeneratedPosts[p].imageUrls) :
                Get(finalGeneratedPosts[p].imageUrls)[k] \in {MediaUrl(k)} \cup BatchFallbacks(k)

(* index 1 got no prompt, indices 2 and 3 were synthesized *)
C9_Witness ==
    /\ Returned
    /\ NumImages = 3
    /\ LastCallOf(1).res = "empty"
    /\ Get(flowReturn.post.imageUrls)[2] = MediaUrl(2)
    /\ Get(flowReturn.post.imageUrls)[3] = MediaUrl(3)

(* the keywords hold a character other than white space *)
NonBlank(kw) == kw # None /\ \E j \in 1..Len(Get(kw)) : Get(kw)[j] # " "

(* the log holds a call of optimizeForSeo *)
HasSeoCall(log) == \E c \in 1..Len(log) : log[c].op = "seo"

(* C10: a rewrite call is pending only for keywords that hold a character
   other than white space; with absent, empty or blank keywords the step of
   the handler that follows the generation ends it without a rewrite call
   and stores the generated content. *)
C10_SeoOnlyWithKeywords ==
    /\ []((blogPc = "seo" \/ HasSeoCall(calls)) => NonBlank(blogData.seoKeywords))
    /\ []((socialPc = "seo" \/ HasSeoCall(socialCalls)) => NonBlank(socialData.seoKeywords))
    /\ [][(/\ blogPc = "generate" /\ flowPc = "done" /\ blogPc' # blogPc
           /\ ~NonBlank(blogData.seoKeywords))
          => /\ blogPc' = "idle"
             /\ ~HasSeoCall(calls')
             /\ generatedBlogPost' = Some(flowReturn.post)
       ]_vars
    /\ [][(/\ socialPc = "generate" /\ socialPc' # socialPc
           /\ ~NonBlank(socialData.seoKeywords))
          => /\ socialPc' = "idle"
             /\ ~HasSeoCall(socialCalls')
             /\ generatedSocialMediaPost' # None =>
                   Get(generatedSocialMediaPost').postContent = socialCalls'[1].url
       ]_vars

(* a blog post was stored for keywords of white space only *)
C10_Witness ==
    /\ blogPc = "idle"
    /\ blogData.seoKeywords = Some(<<" ">>)
    /\ generatedBlogPost # None
    /\ Get(generatedBlogPost).content \in ContentValues

(* C11: a direct call of optimizeForSeo with empty or blank keywords never
   reaches the rewrite prompt: every rewrite prompt call of a direct call
   was made for keywords that hold a character other than white space. *)
C11_NoRewriteForBlankKeywords ==
    \A c \in 1..Len(calls) : calls[c].op = "rewrite" => NonBlank(calls[c].arg)

(* C12: the step that ends a submission after its rewrite call stores the
   result and reports the generation as done, never as a generation error;
   unless that step reports the rewrite as done, it stores exactly the
   result as it was before the rewrite and reports a destructive toast
   titled SEO Optimization Issue. *)
C12_RewriteFailureIsCaught ==
    /\ [][(blogPc = "seo" /\ blogPc' # "seo") =>
            /\ blogPc' = "idle"
            /\ ~isLoading'
            /\ generatedBlogPost' # None
            /\ Len(toasts') = 2
            /\ toasts'[2].title = "Blog Post Generated!"
            /\ toasts'[1].title # "Blog Post SEO Optimized!" =>
                  /\ generatedBlogPost' = Some(blogPostResult)
                  /\ toasts'[1].title = "SEO Optimization Issue"
                  /\ toasts'[1].variant = "destructive"
       ]_vars
    /\ [][(socialPc = "seo" /\ socialPc' # "seo") =>
            /\ socialPc' = "idle"
            /\ ~isLoading'
            /\ generatedSocialMediaPost' # None
            /\ Len(toasts') = 2
            /\ toasts'[2].title = "Social Media Post Generated!"
            /\ toasts'[1].title # "Social Post SEO Optimized!" =>
                  /\ generatedSocialMediaPost' = Some(socialResult)
                  /\ Get(generatedSocialMediaPost').postContent = socialCalls[1].url
                  /\ toasts'[1].title = "SEO Optimization Issue"
                  /\ toasts'[1].variant = "destructive"
       ]_vars

(* a blog post with references stored after its rewrite call threw *)
C12_Witness ==
    /\ Len(toasts) = 2
    /\ toasts[1].title = "SEO Optimization Issue"
    /\ Includes(toasts[1].description, <<"fetch failed">>)
    /\ toasts[2].title = "Blog Post Generated!"
    /\ generatedBlogPost # None
    /\ Get(generatedBlogPost).content \in ContentValues
    /\ SlotsOf(Get(generatedBlogPost).imageUrls) = 2

(* C19: a direct call of optimizeForSeo returns a result only when the
   rewrite prompt returned an output with non-empty optimizedContent. *)
C19_RewriteErrorsAreFatal ==
    seoPc = "done" =>
       /\ seoReturn.result # None
       /\ Get(seoReturn.result).optimizedContent # <<>>

(* the sum of the heights of a sequence of chunks *)
RECURSIVE SumHeights(_)
SumHeights(chunks) ==
    IF chunks = <<>> THEN 0 ELSE chunks[1].height + SumHeights(Tail(chunks))

(* the number of pages a canvas of height h needs at capacity c *)
PagesNeeded(h, c) == (h + c - 1) \div c

(* C13: when the page loop of handleExportPdf runs to its end for a canvas
   of height H and a page capacity C > 0, it has emitted ceil(H / C) chunks
   whose heights add up to H. *)
C13_Pagination ==
    (pdfExport # None /\ Get(pdfExport).saved) =>
       LET e == Get(pdfExport)
       IN /\ Len(e.chunks) = PagesNeeded(e.canvasHeight, e.capacity)
          /\ SumHeights(e.chunks) = e.canvasHeight

(* a canvas of height 5 at capacity 2: three chunks, the last one short *)
C13_Witness ==
    /\ pdfExport # None
    /\ Get(pdfExport).saved
    /\ Get(pdfExport).canvasHeight = 5
    /\ Get(pdfExport).capacity = 2
    /\ Len(Get(pdfExport).chunks) = 3
    /\ Get(pdfExport).chunks[3].height = 1

(* C14: the chunks handleExportPdf emits tile the canvas: the first starts
   at offset 0, each later one starts where the one before it ends, each is
   higher than 0 and at most as high as the capacity, only the last one may
   be lower than the capacity, and a loop that ran to its end stops at the
   canvas height. *)
C14_ChunksTileTheCanvas ==
    pdfExport # None =>
       LET e == Get(pdfExport)
           n == Len(e.chunks)
       IN /\ n > 0 => e.chunks[1].offset = 0
          /\ \A k \in 2..n : e.chunks[k].offset = e.chunks[k - 1].offset + e.chunks[k - 1].height
          /\ \A k \in 1..n : e.chunks[k].height > 0 /\ e.chunks[k].height <= e.capacity
          /\ \A k \in 1..(n - 1) : e.chunks[k].height = e.capacity
          /\ (e.saved /\ n > 0) => e.chunks[n].offset + e.chunks[n].height = e.canvasHeight
          /\ (e.saved /\ n = 0) => e.canvasHeight = 0

(* a canvas of height 4 at capacity 3: a full chunk and a short one *)
C14_Witness ==
    /\ pdfExport # None
    /\ Get(pdfExport).saved
    /\ Len(Get(pdfExport).chunks) = 2
    /\ Get(pdfExport).chunks[1].offset = 0
    /\ Get(pdfExport).chunks[1].height = 3
    /\ Get(pdfExport).chunks[2].offset = 3
    /\ Get(pdfExport).chunks[2].height = 1

(* C15: when getContext('2d') returns null for a page the loop reaches, the
   document is not saved, whatever chunks were added before, no success
   toast is shown, the one toast reports the export error, and isLoading is
   reset. *)
C15_LostContextFailsExport ==
    (/\ pdfExport # None
     /\ Get(pdfExport).contextLost \in
           1..PagesNeeded(Get(pdfExport).canvasHeight, Get(pdfExport).capacity))
    => /\ ~Get(pdfExport).saved
       /\ Len(Get(pdfExport).chunks) = Get(pdfExport).contextLost - 1
       /\ Len(toasts) = 1
       /\ toasts[1].title = "Error Exporting PDF"
       /\ toasts[1].variant = "destructive"
       /\ ~isLoading

(* the context of the third page is lost after two chunks were added *)
C15_Witness ==
    /\ pdfExport # None
    /\ Get(pdfExport).contextLost = 3
    /\ Len(Get(pdfExport).chunks) = 2
    /\ ~Get(pdfExport).saved
    /\ toasts[1].title = "Error Exporting PDF"

(* a blog request whose main keyword is shorter than 3 or longer than 100
   characters, or whose picture count or word count, read as a number, is
   not an integer of 0..5 and of 700..3000 *)
OutOfBounds(request) ==
    \/ request.mainKeyword.length < 3
    \/ request.mainKeyword.length > 100
    \/ CoerceNumber(request.numPictures).nan
    \/ CoerceNumber(request.numPictures).frac
    \/ CoerceNumber(request.numPictures).int \notin 0..5
    \/ CoerceNumber(request.wordCount).nan
    \/ CoerceNumber(request.wordCount).frac
    \/ CoerceNumber(request.wordCount).int \notin 700..3000

(* C16: a blog request out of bounds, submitted through the form or handed
   to generateBlogPost, is answered with a validation error and starts no
   generation: the flow is not at or past its text stage and the request has
   no external call; a rejected direct request never gets one; and every
   request at or past the text stage has a main keyword of 3..100
   characters, a picture count in 0..5 and a word count in 700..3000. *)
C16_OutOfBoundsRejected ==
    /\ (blogRequest # None /\ OutOfBounds(Get(blogRequest))) =>
          /\ fieldErrors # {}
          /\ calls = <<>>
          /\ flowPc \notin {"text", "prompt", "synth", "done"}
          /\ revision = "direct" => flowPc = "failed" /\ flowReturn.status = "invalid"
          /\ revision = "current" => blogPc = "idle" /\ flowPc = "idle" /\ ~isLoading
    /\ flowReturn.status = "invalid" => calls = <<>> /\ flowPc = "failed"
    /\ (revision \in {"current", "direct"} /\ flowPc \in {"text", "prompt", "synth", "done"}) =>
          /\ flowInput.mainKeyword.length \in 3..100
          /\ flowInput.numPictures \in 0..5
          /\ flowInput.wordCount \in 700..3000

(* a direct request with a word count of 700 and a fraction is rejected *)
C16_Witness ==
    /\ revision = "direct"
    /\ blogRequest # None
    /\ Get(blogRequest).wordCount = NumberValue(NumFrac(700))
    /\ fieldErrors = {"wordCount"}
    /\ flowReturn.status = "invalid"

(* C17: a result generateBlogPost returns for a request with a title of the
   caller's carries that title, character for character. *)
C17_UserTitleVerbatim ==
    (revision = "direct" /\ flowPc = "done" /\ ~Falsy(flowInput.userProvidedTitle)) =>
       flowReturn.post.title = flowInput.userProvidedTitle

(* every tag of a list starts with '#' *)
AllHashed(tags) == \A k \in 1..Len(tags) : StartsWith(tags[k], "#")

(* C18: every hashtag of every result of generateSocialMediaPost starts
   with '#': of the post the single post flow returned to
   onSocialMediaSubmit, and of every post the batch flow returned. *)
C18_HashtagsStartWithHash ==
    /\ socialPc = "seo" => AllHashed(socialResult.hashtags)
    /\ generatedSocialMediaPost # None => AllHashed(Get(generatedSocialMediaPost).hashtags)
    /\ (revision = "batch" /\ flowPc = "done") =>
          \A p \in 1..Len(finalGeneratedPosts) :
             finalGeneratedPosts[p].hashtags # None =>
                AllHashed(Get(finalGeneratedPosts[p].hashtags))

(* call c of the log filled the slot of its index: a synthesis call however
   it ended, or an image prompt call that gave no prompt *)
Settles(c) ==
    \/ calls[c].op = "synth"
    \/ calls[c].op = "prompt" /\ calls[c].res # "ok"

(* the log of a blog request is in the order text, then for each index in
   turn prompt and synthesis, then the rewrite; and the call in flight comes
   after the calls it depends on *)
CallLogOrdered ==
    revision \in {"current", "direct"} =>
       /\ \A c \in 1..Len(calls) :
             /\ calls[c].op = "text" <=> c = 1
             /\ c > 1 => calls[1].res = "ok"
             /\ calls[c].op = "prompt" =>
                   IF calls[c].idx = 1 THEN c = 2
                   ELSE Settles(c - 1) /\ calls[c - 1].idx = calls[c].idx - 1
             /\ calls[c].op = "synth" =>
                   /\ calls[c - 1].op = "prompt"
                   /\ calls[c - 1].res = "ok"
                   /\ calls[c - 1].idx = calls[c].idx
             /\ calls[c].op = "seo" =>
                   /\ c = Len(calls)
                   /\ IF blogData.numPictures = 0 THEN c = 2
                      ELSE Settles(c - 1) /\ calls[c - 1].idx = blogData.numPictures
       /\ flowPc \in {"prompt", "synth"} =>
             /\ calls # <<>>
             /\ Len(imageUrls) = i
             /\ i < flowInput.numPictures
       /\ flowPc = "prompt" =>
             IF i = 0 THEN Len(calls) = 1
             ELSE Settles(Len(calls)) /\ calls[Len(calls)].idx = i
       /\ flowPc = "synth" =>
             /\ calls[Len(calls)].op = "prompt"
             /\ calls[Len(calls)].res = "ok"
             /\ calls[Len(calls)].idx = i + 1
       /\ blogPc = "seo" =>
             /\ calls[Len(calls)].op = "seo"
             /\ SlotsOf(blogPostResult.imageUrls) = blogData.numPictures

(* within a request the log only grows at its end, one call at a time *)
CallLogGrows ==
    \/ calls' = calls
    \/ calls' = <<>>
    \/ Len(calls') = Len(calls) + 1 /\ SubSeq(calls', 1, Len(calls)) = calls

(* C20: within one blog request the text completion completes before any
   image call, the indices are processed in the order 1..N, the image
   prompt call of index i + 1 is issued only when the slot of index i is
   filled, and the rewrite call is issued only when all N slots are filled. *)
C20_CallsStrictlyOrdered == []CallLogOrdered /\ [][CallLogGrows]_vars

(* the rewrite is in flight after a request for two pictures whose first
   index got no prompt and whose second was synthesized *)
C20_Witness ==
    /\ revision = "current"
    /\ blogPc = "seo"
    /\ blogData.numPictures = 2
    /\ Len(calls) = 5
    /\ calls[2].res = "empty"
    /\ calls[4].op = "synth"
    /\ calls[5].op = "seo"

(* C21: the step that ends a submission with the toast of a successful
   rewrite stores the result it held before the rewrite with another
   content only: title, imageUrls and thumbnailUrl of a blog post, and
   hashtags of a social post, are those of before, and the content is the
   optimizedContent the rewrite returned. *)
C21_RewriteChangesContentOnly ==
    /\ [][(blogPc = "seo" /\ blogPc' = "idle" /\ toasts'[1].title = "Blog Post SEO Optimized!") =>
            /\ Get(generatedBlogPost').title = blogPostResult.title
            /\ Get(generatedBlogPost').imageUrls = blogPostResult.imageUrls
            /\ Get(generatedBlogPost').thumbnailUrl = blogPostResult.thumbnailUrl
            /\ Get(generatedBlogPost').content \in {Some(<<>>), Some(RewrittenContent)}
       ]_vars
    /\ [][(socialPc = "seo" /\ socialPc' = "idle" /\ toasts'[1].title = "Social Post SEO Optimized!") =>
            /\ Get(generatedSocialMediaPost').hashtags = socialResult.hashtags
            /\ Get(generatedSocialMediaPost').postContent \in {<<>>, RewrittenContent}
       ]_vars

(* a rewritten blog post that kept its two references and its thumbnail *)
C21_Witness ==
    /\ Len(toasts) = 2
    /\ toasts[1].title = "Blog Post SEO Optimized!"
    /\ generatedBlogPost # None
    /\ Get(generatedBlogPost).content = Some(RewrittenContent)
    /\ SlotsOf(Get(generatedBlogPost).imageUrls) = 2
    /\ Get(generatedBlogPost).thumbnailUrl = Some(Get(Get(generatedBlogPost).imageUrls)[1])

(* the characters of text from offset a up to, not including, offset b *)
Slice(text, a, b) == [k \in 1..(b - a) |-> text[a + k]]

(* C22: the context of every image prompt call of generateBlogPost: when
   the token of the call's index first occurs at offset p of the content of
   length L, the context is content[max(0, p - 150) .. min(L, p + |token| +
   150)): it holds the token, at most 150 characters before it and at most
   150 after it, and lies inside the content; when the token does not
   occur, no context is passed. *)
C22_ContextWindow ==
    \A c \in 1..Len(calls) :
       calls[c].op = "prompt" =>
          LET token == Placeholder(calls[c].idx)
              p == IndexOf(content, token)
              L == Len(content)
              from == IF p - 150 > 0 THEN p - 150 ELSE 0
              to == IF p + Len(token) + 150 < L THEN p + Len(token) + 150 ELSE L
          IN IF p = -1 THEN calls[c].arg = None
             ELSE /\ calls[c].arg = Some(Slice(content, from, to))
                  /\ OccursAt(Get(calls[c].arg), token, p - from)
                  /\ p - from <= 150
                  /\ to - (p + Len(token)) <= 150
                  /\ 0 <= from /\ to <= L

(* the token of index 2 stands after 151 and before 151 characters: the
   context is cut on both sides; index 1 had no token and no context *)
C22_Witness ==
    /\ Len(content) = 151 + Len(Placeholder(2)) + 151
    /\ \E c \in 1..Len(calls) :
          /\ calls[c].op = "prompt"
          /\ calls[c].idx = 2
          /\ calls[c].arg # None
          /\ Len(Get(calls[c].arg)) = 150 + Len(Placeholder(2)) + 150
    /\ \E c \in 1..Len(calls) :
          /\ calls[c].op = "prompt"
          /\ calls[c].idx = 1
          /\ calls[c].arg = None

(* C23: the first chunk handleExportPdf draws is on the initial page of the
   document and every later chunk on a page added for it: chunk k is on
   page k, and after an export of P >= 1 chunks the document has its
   initial page and P - 1 added ones, each page with exactly one chunk. *)
C23_OneChunkPerPage ==
    pdfExport # None =>
       LET e == Get(pdfExport)
           P == Len(e.chunks)
       IN /\ \A k \in 1..P : e.chunks[k].page = k
          /\ (e.saved /\ P >= 1) =>
                /\ e.pages - 1 = P - 1
                /\ \A page \in 1..e.pages :
                      Cardinality({k \in 1..P : e.chunks[k].page = page}) = 1

(* an export of three chunks on three pages *)
C23_Witness ==
    /\ pdfExport # None
    /\ Get(pdfExport).saved
    /\ Len(Get(pdfExport).chunks) = 3
    /\ Get(pdfExport).pages = 3
    /\ Get(pdfExport).chunks[1].page = 1
    /\ Get(pdfExport).chunks[3].page = 3

(* an iteration of the page loop advances the position, or throws *)
PageAdvances ==
    (pdfPc = "paging" /\ pdfPc' = "paging") =>
       \/ Get(pdfLoop').st.positionOnCanvas > Get(pdfLoop).st.positionOnCanvas
       \/ Get(pdfLoop').st.thrown

(* C26: the page loop of handleExportPdf terminates for every canvas:
   every iteration advances the position by more than 0 or throws, and the
   handler gets past the loop. *)
C26_PageLoopTerminates == <>(pdfPc = "idle") /\ [][PageAdvances]_vars

(* the loop was left by its test after three iterations over a canvas of
   height 5 *)
C26_Witness ==
    /\ pdfPc = "idle"
    /\ pdfExport # None
    /\ Get(pdfExport).canvasHeight = 5
    /\ Get(pdfExport).saved
    /\ Len(Get(pdfExport).chunks) = 3

(* positions in the log of the calls of one kind made for index k *)
OpCalls(op, k) == {c \in 1..Len(calls) : calls[c].op = op /\ calls[c].idx = k}

(* the log of a generateBlogPost request holds one text completion; for
   every index that has its slot one prompt call and, when that call gave a
   prompt text, one synthesis call, the slot holding the fallback when the
   last call for it failed; for the index in synthesis its prompt call; and
   no call for any other index *)
SingleAttempts ==
    (revision \in {"current", "direct"} /\ calls # <<>>) =>
       /\ Cardinality(OpCalls("text", 0)) = 1
       /\ calls[1].op = "text"
       /\ flowPc = "failed" => Len(calls) = 1
       /\ flowPc \in {"prompt", "synth", "done"} =>
             \A k \in 1..PicturesBound :
                IF k <= Len(imageUrls)
                THEN /\ Cardinality(OpCalls("prompt", k)) = 1
                     /\ Cardinality(OpCalls("synth", k)) =
                           (IF calls[CHOOSE c \in OpCalls("prompt", k) : TRUE].res = "ok"
                            THEN 1 ELSE 0)
                     /\ imageUrls[k] = (IF LastCallOf(k).res = "ok" THEN MediaUrl(k)
                                        ELSE PlaceholdUrl)
                ELSE /\ Cardinality(OpCalls("prompt", k)) =
                           (IF flowPc = "synth" /\ k = i + 1 THEN 1 ELSE 0)
                     /\ OpCalls("synth", k) = {}

(* an image call that fails is followed at once by the push of the fallback *)
FailureFallsBack ==
    (/\ revision \in {"current", "direct"}
     /\ Len(calls') = Len(calls) + 1
     /\ calls'[Len(calls')].op \in {"prompt", "synth"}
     /\ calls'[Len(calls')].res # "ok") =>
       /\ imageUrls' = Append(imageUrls, PlaceholdUrl)
       /\ flowPc' \in {"prompt", "done"}
       /\ flowPc' = "prompt" => i' = i + 1

(* C24: within one generateBlogPost request every external call is made
   once and never again: one text completion, for each index one image
   prompt call and at most one synthesis call (none when the prompt call
   failed or gave no prompt text), and a failed image call is followed by
   the fallback for its index. *)
C24_CallsAttemptedOnce == []SingleAttempts /\ [][FailureFallsBack]_vars

(* a request for two pictures is over: the prompt call of index 1 threw,
   the synthesis of index 2 gave no media *)
C24_Witness ==
    /\ revision = "current"
    /\ flowPc = "done"
    /\ blogPc = "generate"
    /\ Len(calls) = 4
    /\ calls[2].op = "prompt" /\ calls[2].idx = 1 /\ calls[2].res = "throw"
    /\ calls[4].op = "synth" /\ calls[4].idx = 2 /\ calls[4].res = "nomedia"
    /\ imageUrls = <<PlaceholdUrl, PlaceholdUrl>>

(* the content of a blog post after the bold and line-break rewrites, the
   text the token replacement of renderBlogContent scans *)
ScannedContent(blogPost) ==
    ReplaceNewlines(ReplaceParagraphBreaks(
        ReplaceBold(Get(blogPost.content), <<"<strong>">>, <<"</strong>">>), 1))

(* the alt text renderBlogContent gives the images of a titled blog post *)
AltOf(blogPost) == IF ~Falsy(blogPost.title) THEN Get(blogPost.title) ELSE MainKeyword

(* what takes the place of position k of the scanned text s: the image of
   index n with source urls[n] for a token of index n in 1..Len(urls),
   nothing for any other token and for the positions inside a token, the
   character itself elsewhere *)
PieceAt(s, k, urls, alt) ==
    IF TokenEnd(s, k) # 0
    THEN LET n == TokenIndex(s, k)
         IN IF 1 <= n /\ n <= Len(urls)
            THEN <<"<figure", "<img src=">> \o urls[n] \o <<" alt=">> \o alt
                    \o <<" - illustration ">> \o Numeral(n) \o <<"/>", "</figure>">>
            ELSE <<>>
    ELSE IF \E t \in 1..(k - 1) : TokenEnd(s, t) >= k THEN <<>>
    ELSE <<s[k]>>

RECURSIVE PiecesUpTo(_, _, _, _)
PiecesUpTo(s, k, urls, alt) ==
    IF k = 0 THEN <<>> ELSE PiecesUpTo(s, k - 1, urls, alt) \o PieceAt(s, k, urls, alt)

(* C25: the block renderBlogContent produces is the scanned content with
   every token of an index n in 1..|imageUrls| replaced by an image whose
   source is imageUrls[n-1], and every token of index 0 or of an index
   above |imageUrls| replaced by nothing. *)
C25_TokensResolvedByIndex ==
    (renderedHtml # None /\ generatedBlogPost # None) =>
       LET blogPost == Get(generatedBlogPost)
           s == ScannedContent(blogPost)
           urls == IF blogPost.imageUrls = None THEN <<>> ELSE Get(blogPost.imageUrls)
       IN Get(renderedHtml) = PiecesUpTo(s, Len(s), urls, AltOf(blogPost))

(* a rendered article whose content named the images 2 and 1, in this order,
   and whose post has both *)
C25_Witness ==
    /\ renderedHtml # None
    /\ Get(generatedBlogPost).content = Some(Placeholder(2) \o Placeholder(1))
    /\ Get(generatedBlogPost).imageUrls = Some(<<PlaceholdUrl, MediaUrl(2)>>)
    /\ Get(renderedHtml)[3] = "data:image"

(* the handlers that are between their setIsLoading(true) and their finally
   block *)
InFlight ==
    (IF blogPc # "idle" THEN {"onBlogSubmit"} ELSE {})
    \cup (IF socialPc # "idle" THEN {"onSocialMediaSubmit"} ELSE {})
    \cup (IF pdfPc # "idle" THEN {"handleExportPdf"} ELSE {})

OneInFlight ==
    /\ Cardinality(InFlight) <= 1
    /\ InFlight # {} => isLoading

(* while a handler is in flight no step starts another *)
NoSecondStart == InFlight # {} => InFlight' \subseteq InFlight

(* C27: at most one of onBlogSubmit, onSocialMediaSubmit and
   handleExportPdf is in flight at any time; while one is in flight
   isLoading is true and no submission or export is started, whatever the
   order of tab switches, submissions and completions. *)
C27_OneHandlerInFlight == []OneInFlight /\ [][NoSecondStart]_vars

(* a blog submission is in flight and the user has moved to the social tab,
   whose form is shown with its button disabled *)
C27_Witness ==
    /\ blogPc = "generate"
    /\ flowPc = "synth"
    /\ activeTab = "social"
    /\ isLoading
    /\ SocialSubmitDisabled

(* C28: in every reachable state at most one of generatedBlogPost and
   generatedSocialMediaPost is non-null. *)
C28_OnePostStored == ~(generatedBlogPost # None /\ generatedSocialMediaPost # None)

(* a social submission has just stored its post after the user had moved
   to the blog tab *)
C28_Witness ==
    /\ generatedSocialMediaPost # None
    /\ generatedBlogPost = None
    /\ activeTab = "blog"
    /\ ~isLoading
    /\ toasts # <<>>

(* C29: with every external call returning or throwing in the end, a run of
   onBlogSubmit, onSocialMediaSubmit or handleExportPdf that set isLoading
   to true sets it back to false: whenever isLoading is true it is false
   again later. *)
C29_LoadingEnds == isLoading ~> ~isLoading

(* the two submit handlers do end in their finally block *)
C29_SubmissionsEnd ==
    /\ (blogPc # "idle") ~> (blogPc = "idle" /\ ~isLoading)
    /\ (socialPc # "idle") ~> (socialPc = "idle" /\ ~isLoading)

(* C30: every blog result stored in generatedBlogPost has a non-empty title
   and a non-empty content, also when the rewrite for the SEO keywords ran
   on it. *)
C30_StoredPostHasTitleAndContent ==
    generatedBlogPost # None =>
       /\ ~Falsy(Get(generatedBlogPost).title)
       /\ ~Falsy(Get(generatedBlogPost).content)

====
